---- MODULE Spec2Model ----
(***************************************************************************)
(* The value-conversion engine of package utilities (Any2Int, Any2Int32,   *)
(* Any2Int64, Any2Float32, Any2Float64, Any2Date, Any2String).             *)
(*                                                                         *)
(* A Go `any` is a tagged value.  Integers are 64-bit two's complement     *)
(* words (an int32 is kept sign-extended), held as 16-bit limbs, least     *)
(* significant first, because the values the conversions are about do not  *)
(* fit the model checker's own integers.  Floats are sign, mantissa and    *)
(* binary exponent.  Strings are strings; a character is a string of       *)
(* length one.                                                             *)
(***************************************************************************)
EXTENDS Integers, Sequences, FiniteSets, TLC

\* ------------------------------------------------------------------------
\* Machine words
\* ------------------------------------------------------------------------

Limb == 2^16

HalfLimb == 2^15

Pow2(n) == 2^n

\* The word of `len` limbs whose every limb is x.
Fill(len, x) == [i \in 1..len |-> x]

\* A small integer (one the model checker can hold) as a 64-bit word.
FromInt(n) ==
  << n % Limb, (n \div Limb) % Limb,
     IF n < 0 THEN Limb - 1 ELSE 0, IF n < 0 THEN Limb - 1 ELSE 0 >>

\* The top bit of a word: the sign of a two's complement integer.
IsNeg(w) == w[Len(w)] >= HalfLimb

IsZero(w) == \A i \in 1..Len(w) : w[i] = 0

\* a < b, both read as unsigned.
ULess(a, b) ==
  \E i \in 1..Len(a) : /\ a[i] < b[i]
                       /\ \A j \in (i+1)..Len(a) : a[j] = b[j]

\* a < b, both read as two's complement.
SLess(a, b) == IF IsNeg(a) # IsNeg(b) THEN IsNeg(a) ELSE ULess(a, b)

RECURSIVE AddC(_, _, _)
AddC(a, b, c) ==
  IF a = <<>> THEN <<>>
  ELSE LET t == Head(a) + Head(b) + c
       IN  <<t % Limb>> \o AddC(Tail(a), Tail(b), t \div Limb)

\* a + b, wrapping at the word length.
AddW(a, b) == AddC(a, b, 0)

NotW(a) == [i \in 1..Len(a) |-> Limb - 1 - a[i]]

\* -a, wrapping: the two's complement.
NegW(a) == AddC(NotW(a), Fill(Len(a), 0), 1)

SubW(a, b) == AddC(a, NotW(b), 1)

RECURSIVE MulC(_, _, _)
MulC(a, k, c) ==
  IF a = <<>> THEN <<>>
  ELSE LET t == Head(a) * k + c
       IN  <<t % Limb>> \o MulC(Tail(a), k, t \div Limb)

\* a * k + c for small k and c (k <= 2^15), wrapping at the word length.
MulSmall(a, k, c) == MulC(a, k, c)

RECURSIVE DivStep(_, _, _, _)
DivStep(a, d, i, r) ==
  IF i = 0 THEN [q |-> <<>>, r |-> r]
  ELSE LET cur  == r * Limb + a[i]
           rest == DivStep(a, d, i - 1, cur % d)
       IN  [q |-> Append(rest.q, cur \div d), r |-> rest.r]

\* Unsigned quotient and remainder of a by a small d (d <= 2^15).
DivSmall(a, d) == DivStep(a, d, Len(a), 0)

\* a widened (zero-extended) or cut to len limbs.
Resize(a, len) == [i \in 1..len |-> IF i <= Len(a) THEN a[i] ELSE 0]

\* The number of bits of a limb, and of an unsigned word.
LimbBits(x) == CHOOSE k \in 0..16 : x < Pow2(k) /\ (k = 0 \/ x >= Pow2(k - 1))

BitLen(w) ==
  IF IsZero(w) THEN 0
  ELSE LET top == CHOOSE i \in 1..Len(w) :
                    w[i] # 0 /\ \A j \in (i+1)..Len(w) : w[j] = 0
       IN  16 * (top - 1) + LimbBits(w[top])

\* w shifted left by s bits, wrapping at the word length.
Shl(w, s) ==
  LET whole == s \div 16
      moved == [i \in 1..Len(w) |-> IF i > whole THEN w[i - whole] ELSE 0]
  IN  MulSmall(moved, Pow2(s % 16), 0)

\* w shifted right by s bits (unsigned).
Shr(w, s) ==
  LET whole == s \div 16
      moved == [i \in 1..Len(w) |->
                  IF i + whole <= Len(w) THEN w[i + whole] ELSE 0]
  IN  DivSmall(moved, Pow2(s % 16)).q

\* w is even.
IsEven(w) == w[1] % 2 = 0

\* ------------------------------------------------------------------------
\* Integer limits (package math)
\* ------------------------------------------------------------------------

MaxInt32 == 2147483647

MinInt32 == (-MaxInt32) - 1

MaxInt32W == FromInt(MaxInt32)

MinInt32W == FromInt(MinInt32)

MaxInt64W == << Limb - 1, Limb - 1, Limb - 1, HalfLimb - 1 >>

MinInt64W == << 0, 0, 0, HalfLimb >>

\* int is 64 bits wide on the platforms modelled.
MaxIntW == MaxInt64W

MinIntW == MinInt64W

\* Go's int32(x) of an integer: the low 32 bits, sign-extended.
TruncInt32(w) ==
  LET f == IF w[2] >= HalfLimb THEN Limb - 1 ELSE 0
  IN  << w[1], w[2], f, f >>

\* ------------------------------------------------------------------------
\* Characters
\* ------------------------------------------------------------------------

At(s, i) == SubSeq(s, i, i)

DigitChars == "0123456789"

IsDigitChar(c) == \E i \in 1..10 : At(DigitChars, i) = c

DigitVal(c) == (CHOOSE i \in 1..10 : At(DigitChars, i) = c) - 1

DigitChar(d) == At(DigitChars, d + 1)

UpperChars == "ABCDEFGHIJKLMNOPQRSTUVWXYZ"

LowerChars == "abcdefghijklmnopqrstuvwxyz"

\* The lower-case form of a character (ASCII letters only).
Lower(c) ==
  IF \E i \in 1..26 : At(UpperChars, i) = c
  THEN At(LowerChars, CHOOSE i \in 1..26 : At(UpperChars, i) = c)
  ELSE c

IsLetter(c) == \E i \in 1..26 : At(LowerChars, i) = Lower(c)

RECURSIVE LowerStr(_)
LowerStr(s) == IF s = "" THEN "" ELSE Lower(Head(s)) \o LowerStr(Tail(s))

\* strings.ReplaceAll(s, old, "") for a one-character old.
RECURSIVE RemoveChar(_, _)
RemoveChar(s, c) ==
  IF s = "" THEN ""
  ELSE (IF Head(s) = c THEN "" ELSE Head(s)) \o RemoveChar(Tail(s), c)

HasPrefix(s, p) == Len(s) >= Len(p) /\ SubSeq(s, 1, Len(p)) = p

Drop(s, n) == SubSeq(s, n + 1, Len(s))

\* ------------------------------------------------------------------------
\* strconv.ParseInt and the integer verbs of fmt
\* ------------------------------------------------------------------------

ErrNil == "nil"

\* maxUint64/10 + 1: the smallest n such that n*10 overflows 64 bits.
UintCutoff == << 39322, 39321, 39321, 6553 >>

\* 1<<bitSize - 1, the largest unsigned value of bitSize bits.
UintMax(bitSize) ==
  IF bitSize = 32 THEN << Limb - 1, Limb - 1, 0, 0 >> ELSE Fill(4, Limb - 1)

\* The digit loop of strconv.ParseUint in base 10.
RECURSIVE ParseUintLoop(_, _, _)
ParseUintLoop(s, n, maxVal) ==
  IF s = "" THEN [n |-> n, err |-> ErrNil]
  ELSE IF ~IsDigitChar(Head(s)) THEN [n |-> FromInt(0), err |-> "syntax"]
  ELSE IF ~ULess(n, UintCutoff) THEN [n |-> maxVal, err |-> "range"]
  ELSE LET n0 == MulSmall(n, 10, 0)
           n1 == AddW(n0, FromInt(DigitVal(Head(s))))
       IN  IF ULess(n1, n0) \/ ULess(maxVal, n1)
           THEN [n |-> maxVal, err |-> "range"]
           ELSE ParseUintLoop(Tail(s), n1, maxVal)

\* strconv.ParseUint(s, 10, bitSize).
ParseUint(s, bitSize) ==
  IF s = "" THEN [n |-> FromInt(0), err |-> "syntax"]
  ELSE ParseUintLoop(s, FromInt(0), UintMax(bitSize))

\* ParseInt with limits that are symmetric about zero, so that -2^(bitSize-1)
\* is out of range: an off-by-one the round trips must tell from ParseInt.
ParseIntSymmetric(s, bitSize) ==
  IF s = "" THEN [n |-> FromInt(0), err |-> "syntax"]
  ELSE LET neg    == Head(s) = "-"
           body   == IF Head(s) \in {"+", "-"} THEN Tail(s) ELSE s
           un     == ParseUint(body, bitSize)
           cutoff == Shl(FromInt(1), bitSize - 1)
       IN  IF un.err = "syntax" THEN [n |-> FromInt(0), err |-> "syntax"]
           ELSE IF ~ULess(un.n, cutoff)
             THEN [n |-> IF neg THEN NegW(cutoff) ELSE SubW(cutoff, FromInt(1)),
                   err |-> "range"]
           ELSE [n |-> IF neg THEN NegW(un.n) ELSE un.n, err |-> ErrNil]

\* strconv.ParseInt(s, 10, bitSize): the value as a word, and the error
\* ("nil", "syntax" or "range").
ParseInt(s, bitSize) ==
  IF s = "" THEN [n |-> FromInt(0), err |-> "syntax"]
  ELSE LET neg    == Head(s) = "-"
           body   == IF Head(s) \in {"+", "-"} THEN Tail(s) ELSE s
           un     == ParseUint(body, bitSize)
           cutoff == Shl(FromInt(1), bitSize - 1)
       IN  IF un.err = "syntax" THEN [n |-> FromInt(0), err |-> "syntax"]
           ELSE IF ~neg /\ ~ULess(un.n, cutoff)
             THEN [n |-> SubW(cutoff, FromInt(1)), err |-> "range"]
           ELSE IF neg /\ ULess(cutoff, un.n)
             THEN [n |-> NegW(cutoff), err |-> "range"]
           ELSE [n |-> IF neg THEN NegW(un.n) ELSE un.n, err |-> ErrNil]

\* The decimal digits of an unsigned word.
RECURSIVE UDecimal(_)
UDecimal(u) ==
  IF ULess(u, Resize(FromInt(10), Len(u))) THEN DigitChar(u[1])
  ELSE LET dm == DivSmall(u, 10) IN UDecimal(dm.q) \o DigitChar(dm.r)

\* fmt's %d and %v of a signed integer: the magnitude is taken in unsigned
\* arithmetic, so the most negative value prints correctly.
FormatInt(w) ==
  IF IsNeg(w) THEN "-" \o UDecimal(NegW(w)) ELSE UDecimal(w)

\* A small natural number in decimal, zero-padded to at least `width`.
RECURSIVE PadZero(_, _)
PadZero(s, width) == IF Len(s) >= width THEN s ELSE PadZero("0" \o s, width)

AppendInt(n, width) == PadZero(UDecimal(FromInt(n)), width)

\* ------------------------------------------------------------------------
\* Package time: layouts, Parse and Format
\* ------------------------------------------------------------------------

\* A time.Time: the calendar date and the seconds since midnight as read in
\* its own zone, the zone's name and the zone's offset east of UTC in seconds.
Time(y, m, d, sec, zone, off) ==
  [year |-> y, month |-> m, day |-> d, sec |-> sec, zone |-> zone, off |-> off]

\* time.Date(y, m, d, 0, 0, 0, 0, time.UTC).
Date(y, m, d) == Time(y, m, d, 0, "UTC", 0)

longMonthNames ==
  << "January", "February", "March", "April", "May", "June", "July",
     "August", "September", "October", "November", "December" >>

shortMonthNames == [i \in 1..12 |-> SubSeq(longMonthNames[i], 1, 3)]

\* isLeap without the rule of the years divisible by 400.
isLeapNoCentury(year) == year % 4 = 0 /\ year % 100 # 0

isLeap(year) == year % 4 = 0 /\ (year % 100 # 0 \/ year % 400 = 0)

\* daysIn with every month taken to be the longest.
daysInLongest(m, year) == 31

daysIn(m, year) ==
  IF m = 2 THEN (IF isLeap(year) THEN 29 ELSE 28)
  ELSE IF m \in {4, 6, 9, 11} THEN 30 ELSE 31

\* The first layout element of `layout`, as time.nextStdChunk finds it, for
\* the elements the layouts of Any2Date and Any2String are made of: the text
\* before it, the element ("" when there is none) and the layout after it.
RECURSIVE nextStdChunk(_, _)
nextStdChunk(layout, prefix) ==
  IF layout = "" THEN [prefix |-> prefix, std |-> "", suffix |-> ""]
  ELSE IF HasPrefix(layout, "January")
    THEN [prefix |-> prefix, std |-> "stdLongMonth", suffix |-> Drop(layout, 7)]
  ELSE IF HasPrefix(layout, "Jan")
    THEN [prefix |-> prefix, std |-> "stdMonth", suffix |-> Drop(layout, 3)]
  ELSE IF HasPrefix(layout, "01")
    THEN [prefix |-> prefix, std |-> "stdZeroMonth", suffix |-> Drop(layout, 2)]
  ELSE IF HasPrefix(layout, "02")
    THEN [prefix |-> prefix, std |-> "stdZeroDay", suffix |-> Drop(layout, 2)]
  ELSE IF HasPrefix(layout, "2006")
    THEN [prefix |-> prefix, std |-> "stdLongYear", suffix |-> Drop(layout, 4)]
  ELSE IF HasPrefix(layout, "1")
    THEN [prefix |-> prefix, std |-> "stdNumMonth", suffix |-> Drop(layout, 1)]
  ELSE IF HasPrefix(layout, "2")
    THEN [prefix |-> prefix, std |-> "stdDay", suffix |-> Drop(layout, 1)]
  ELSE nextStdChunk(Tail(layout), prefix \o Head(layout))

RECURSIVE cutspace(_)
cutspace(s) == IF s # "" /\ Head(s) = " " THEN cutspace(Tail(s)) ELSE s

\* time.skip: the value with the layout's literal text removed from its
\* front; a space of the layout stands for any run of spaces of the value.
RECURSIVE skip(_, _)
skip(value, prefix) ==
  IF prefix = "" THEN [ok |-> TRUE, value |-> value]
  ELSE IF Head(prefix) = " "
    THEN IF value # "" /\ Head(value) # " "
         THEN [ok |-> FALSE, value |-> value]
         ELSE skip(cutspace(value), cutspace(prefix))
  ELSE IF value = "" \/ Head(value) # Head(prefix)
    THEN [ok |-> FALSE, value |-> value]
  ELSE skip(Tail(value), Tail(prefix))

isDigit(s, i) == Len(s) > i /\ IsDigitChar(At(s, i + 1))

\* time.getnum: a one- or two-digit number (two digits when fixed).
getnum(s, fixed) ==
  IF ~isDigit(s, 0) THEN [ok |-> FALSE, n |-> 0, value |-> s]
  ELSE IF ~isDigit(s, 1)
    THEN IF fixed THEN [ok |-> FALSE, n |-> 0, value |-> s]
         ELSE [ok |-> TRUE, n |-> DigitVal(At(s, 1)), value |-> Drop(s, 1)]
  ELSE [ok |-> TRUE, n |-> DigitVal(At(s, 1)) * 10 + DigitVal(At(s, 2)),
        value |-> Drop(s, 2)]

\* time.lookup: the first name of tab the value starts with, letters
\* compared without regard to case.
lookup(tab, val) ==
  LET hits == { i \in 1..Len(tab) :
                  /\ Len(val) >= Len(tab[i])
                  /\ LowerStr(SubSeq(val, 1, Len(tab[i]))) = LowerStr(tab[i]) }
  IN  IF hits = {} THEN [ok |-> FALSE, n |-> 0, value |-> val]
      ELSE LET i == CHOOSE h \in hits : \A g \in hits : h <= g
           IN  [ok |-> TRUE, n |-> i, value |-> Drop(val, Len(tab[i]))]

\* The four digits of a year, as time.atoi reads them.
atoi4(p) ==
  IF \A i \in 1..4 : IsDigitChar(At(p, i))
  THEN [ok |-> TRUE,
        n  |-> DigitVal(At(p, 1)) * 1000 + DigitVal(At(p, 2)) * 100
               + DigitVal(At(p, 3)) * 10 + DigitVal(At(p, 4))]
  ELSE [ok |-> FALSE, n |-> 0]

ParseFail == [ok |-> FALSE, t |-> Date(1, 1, 1)]

\* The element loop of time.Parse; year, month and day are the fields read
\* so far.
RECURSIVE parseLoop(_, _, _, _, _)
parseLoop(layout, value0, year, month, day) ==
  LET chunk == nextStdChunk(layout, "")
      sk    == skip(value0, chunk.prefix)
      value == sk.value
  IN
  IF ~sk.ok THEN ParseFail
  ELSE IF chunk.std = ""
    THEN IF value # "" THEN ParseFail
         ELSE IF day < 1 \/ day > daysIn(month, year) THEN ParseFail
         ELSE [ok |-> TRUE, t |-> Date(year, month, day)]
  ELSE IF chunk.std = "stdLongYear"
    THEN IF Len(value) < 4 \/ ~isDigit(value, 0) THEN ParseFail
         ELSE LET y == atoi4(SubSeq(value, 1, 4))
              IN  IF ~y.ok THEN ParseFail
                  ELSE parseLoop(chunk.suffix, Drop(value, 4), y.n, month, day)
  ELSE IF chunk.std \in {"stdMonth", "stdLongMonth"}
    THEN LET m == lookup(IF chunk.std = "stdMonth" THEN shortMonthNames
                         ELSE longMonthNames, value)
         IN  IF ~m.ok THEN ParseFail
             ELSE parseLoop(chunk.suffix, m.value, year, m.n, day)
  ELSE IF chunk.std \in {"stdNumMonth", "stdZeroMonth"}
    THEN LET m == getnum(value, chunk.std = "stdZeroMonth")
         IN  IF ~m.ok \/ m.n <= 0 \/ 12 < m.n THEN ParseFail
             ELSE parseLoop(chunk.suffix, m.value, year, m.n, day)
  ELSE LET d == getnum(value, chunk.std = "stdZeroDay")
       IN  IF ~d.ok THEN ParseFail
           ELSE parseLoop(chunk.suffix, d.value, year, month, d.n)

\* time.Parse(layout, value) for a layout of year, month and day: the time
\* is midnight UTC of the date read.
Parse(layout, value) == parseLoop(layout, value, 0, 1, 1)

\* time.Time.Format(layout), for the same layout elements.
RECURSIVE Format(_, _)
Format(t, layout) ==
  LET chunk == nextStdChunk(layout, "")
      text  == CASE chunk.std = "stdLongYear"  -> AppendInt(t.year, 4)
                 [] chunk.std = "stdMonth"     -> shortMonthNames[t.month]
                 [] chunk.std = "stdLongMonth" -> longMonthNames[t.month]
                 [] chunk.std = "stdNumMonth"  -> AppendInt(t.month, 0)
                 [] chunk.std = "stdZeroMonth" -> AppendInt(t.month, 2)
                 [] chunk.std = "stdDay"       -> AppendInt(t.day, 0)
                 [] chunk.std = "stdZeroDay"   -> AppendInt(t.day, 2)
                 [] OTHER                      -> ""
  IN  IF chunk.std = "" THEN chunk.prefix
      ELSE chunk.prefix \o text \o Format(t, chunk.suffix)

\* ------------------------------------------------------------------------
\* Floating point
\* ------------------------------------------------------------------------

\* The limbs of the words the decimal/binary conversions are computed in.
WideLimbs == 12

Max2(a, b) == IF a >= b THEN a ELSE b

Min2(a, b) == IF a <= b THEN a ELSE b

Wide(w) == Resize(w, WideLimbs)

One(len) == Resize(FromInt(1), len)

\* A float32 or float64 value: a NaN, an infinity, or (-1)^neg * m * 2^e
\* with m an unsigned word that is odd, or zero with e = 0.
NaN == [k |-> "nan", neg |-> FALSE, m |-> Fill(4, 0), e |-> 0]

Inf(neg) == [k |-> "inf", neg |-> neg, m |-> Fill(4, 0), e |-> 0]

RECURSIVE StripZeros(_, _)
StripZeros(m, e) ==
  IF IsEven(m) THEN StripZeros(Shr(m, 1), e + 1) ELSE [m |-> m, e |-> e]

Fin(neg, m, e) ==
  IF IsZero(m) THEN [k |-> "fin", neg |-> neg, m |-> Fill(4, 0), e |-> 0]
  ELSE LET n == StripZeros(m, e)
       IN  [k |-> "fin", neg |-> neg, m |-> Resize(n.m, 4), e |-> n.e]

\* A small integer times a power of two, as a float.
FloatOf(n, e) == Fin(n < 0, FromInt(IF n < 0 THEN -n ELSE n), e)

\* The format of each float type: bits of mantissa, exponent of the lowest
\* bit of a subnormal, and the power of two no finite value reaches.
MantBits(bitSize) == IF bitSize = 32 THEN 24 ELSE 53

MinExp(bitSize) == IF bitSize = 32 THEN -149 ELSE -1074

TopExp(bitSize) == IF bitSize = 32 THEN 128 ELSE 1024

\* q * 2^(e+s) or the next value up, where q is m without its s lowest bits:
\* up when the bits cut off (and the fraction f below them, nonzero exactly
\* when sticky) are more than half, or are half and q is odd.
RoundCut(neg, m, e, sticky, bitSize, s, q) ==
  LET rem  == SubW(m, Shl(q, s))
      half == IF s > 0 THEN Shl(One(Len(m)), s - 1) ELSE One(Len(m))
      up   == s > 0 /\ ( \/ ULess(half, rem)
                         \/ rem = half /\ (sticky \/ ~IsEven(q)) )
  IN  IF up THEN AddW(q, One(Len(m))) ELSE q

RoundDone(neg, q1, e, bitSize) ==
  IF BitLen(q1) + e > TopExp(bitSize) THEN Inf(neg) ELSE Fin(neg, q1, e)

RoundAt(neg, m, e, sticky, bitSize, s) ==
  RoundDone(neg, RoundCut(neg, m, e, sticky, bitSize, s, Shr(m, s)), e + s,
            bitSize)

\* (-1)^neg * (m + f) * 2^e rounded to the nearest value of the float type,
\* ties to even; f is a fraction in [0,1), nonzero exactly when sticky.
RoundFloat(neg, m, e, sticky, bitSize) ==
  RoundAt(neg, m, e, sticky, bitSize,
          Max2(Max2(BitLen(m) - MantBits(bitSize), MinExp(bitSize) - e), 0))

\* Go's float32(x) and float64(x) of an integer x.
IntToFloat(w, bitSize) ==
  RoundFloat(IsNeg(w), IF IsNeg(w) THEN NegW(w) ELSE w, 0, FALSE, bitSize)

\* Go's float32(x) of a float64 x, and float64(x) of a float32 x.
FloatToFloat(f, bitSize) ==
  IF f.k # "fin" THEN f ELSE RoundFloat(f.neg, f.m, f.e, FALSE, bitSize)

\* |a| < |b| for finite a and b.
MagLess(a, b) ==
  LET pa == BitLen(a.m) + a.e
      pb == BitLen(b.m) + b.e
      e0 == Min2(a.e, b.e)
  IN  IF IsZero(b.m) THEN FALSE
      ELSE IF IsZero(a.m) THEN TRUE
      ELSE IF pa # pb THEN pa < pb
      ELSE ULess(Shl(a.m, a.e - e0), Shl(b.m, b.e - e0))

FIsZero(a) == a.k = "fin" /\ IsZero(a.m)

\* Go's a < b on floats: false when either is a NaN; the two zeros are equal.
FLess(a, b) ==
  IF a.k = "nan" \/ b.k = "nan" THEN FALSE
  ELSE IF FIsZero(a) /\ FIsZero(b) THEN FALSE
  ELSE IF a.neg # b.neg
    THEN IF FIsZero(a) THEN ~b.neg ELSE IF FIsZero(b) THEN a.neg ELSE a.neg
  ELSE LET lessMag == IF a.k = "inf" THEN FALSE
                      ELSE IF b.k = "inf" THEN TRUE
                      ELSE MagLess(a, b)
           moreMag == IF b.k = "inf" THEN FALSE
                      ELSE IF a.k = "inf" THEN TRUE
                      ELSE MagLess(b, a)
       IN  IF a.neg THEN moreMag ELSE lessMag

FGreater(a, b) == FLess(b, a)

\* The build's target: the result of converting a float that the integer
\* type cannot hold is implementation-dependent in Go.
Archs == {"amd64", "arm64"}

MinOf(width) == IF width = 32 THEN MinInt32W ELSE MinInt64W

MaxOf(width) == IF width = 32 THEN MaxInt32W ELSE MaxInt64W

\* Whether the integer part of a finite f is a value of the signed type.
FitsInt(f, width) ==
  \/ BitLen(f.m) + f.e <= width - 1
  \/ f.neg /\ BitLen(f.m) = 1 /\ f.e = width - 1

\* Go's int32(x), int64(x), int(x) of a float x on target arch: truncation
\* toward zero when the result fits; otherwise what the target's conversion
\* instruction leaves (amd64: the most negative value; arm64: saturation,
\* and zero for a NaN).
FloatToInt(f, width, arch) ==
  IF f.k = "fin" /\ FitsInt(f, width)
  THEN LET mag == IF f.e >= 0 THEN Shl(f.m, f.e)
                  ELSE IF -f.e >= 64 THEN FromInt(0) ELSE Shr(f.m, -f.e)
       IN  IF f.neg THEN NegW(mag) ELSE mag
  ELSE IF arch = "amd64" THEN MinOf(width)
  ELSE IF f.k = "nan" THEN FromInt(0)
  ELSE IF f.neg THEN MinOf(width) ELSE MaxOf(width)

\* ------------------------------------------------------------------------
\* strconv.ParseFloat and fmt's %0.2f
\* ------------------------------------------------------------------------

\* The leading decimal digits of s taken onto n: the number read, how many
\* digits were read, and the rest of s.
RECURSIVE ScanDigits(_, _, _)
ScanDigits(s, n, nd) ==
  IF s # "" /\ IsDigitChar(Head(s))
  THEN ScanDigits(Tail(s), MulSmall(n, 10, DigitVal(Head(s))), nd + 1)
  ELSE [n |-> n, nd |-> nd, rest |-> s]

\* A small natural number read from decimal digits (an exponent).
RECURSIVE ScanSmall(_, _)
ScanSmall(s, n) ==
  IF s # "" /\ IsDigitChar(Head(s))
  THEN ScanSmall(Tail(s), IF n < 10000 THEN n * 10 + DigitVal(Head(s)) ELSE n)
  ELSE [n |-> n, rest |-> s]

NoFloat(s) ==
  [ok |-> FALSE, neg |-> FALSE, n |-> Fill(WideLimbs, 0), dexp |-> 0,
   rest |-> s]

\* The exponent of a number: s3 is the text after the "e" and its sign.
readExponent(s, neg, eneg, n, nd, s3, ex) ==
  IF s3 = "" \/ ~IsDigitChar(Head(s3)) THEN NoFloat(s)
  ELSE [ok |-> TRUE, neg |-> neg, n |-> n,
        dexp |-> (IF eneg THEN -ex.n ELSE ex.n) - nd, rest |-> ex.rest]

readExponentSign(s, neg, n, nd, s2) ==
  IF s2 # "" /\ Head(s2) \in {"+", "-"}
  THEN readExponent(s, neg, Head(s2) = "-", n, nd, Tail(s2),
                    ScanSmall(Tail(s2), 0))
  ELSE readExponent(s, neg, FALSE, n, nd, s2, ScanSmall(s2, 0))

\* The number once its digits are read: sawdigits tells whether there were
\* any, fp is the digits read (nd of them after the point) and what follows.
readTail(s, neg, sawdigits, fp) ==
  IF ~sawdigits THEN NoFloat(s)
  ELSE IF fp.rest # "" /\ Lower(Head(fp.rest)) = "e"
    THEN readExponentSign(s, neg, fp.n, fp.nd, Tail(fp.rest))
  ELSE [ok |-> TRUE, neg |-> neg, n |-> fp.n, dexp |-> -fp.nd,
        rest |-> fp.rest]

readFraction(s, neg, ip, fp) == readTail(s, neg, ip.nd + fp.nd > 0, fp)

readPoint(s, neg, ip) ==
  IF ip.rest # "" /\ Head(ip.rest) = "."
  THEN readFraction(s, neg, ip, ScanDigits(Tail(ip.rest), ip.n, 0))
  ELSE readFraction(s, neg, ip, [n |-> ip.n, nd |-> 0, rest |-> ip.rest])

\* strconv.readFloat for decimal text: sign, digits with at most one point,
\* and an optional exponent.  ok is false when no number starts s; rest is
\* what follows the number.  (Hexadecimal mantissas and digit separators
\* are not among the inputs modelled.)
readFloat(s) ==
  IF s # "" /\ Head(s) \in {"+", "-"}
  THEN readPoint(s, Head(s) = "-", ScanDigits(Tail(s), Fill(WideLimbs, 0), 0))
  ELSE readPoint(s, FALSE, ScanDigits(s, Fill(WideLimbs, 0), 0))

\* n * 10^k, four digits at a time.
RECURSIVE MulPow10(_, _)
MulPow10(n, k) ==
  IF k = 0 THEN n
  ELSE IF k >= 4 THEN MulPow10(MulSmall(n, 10000, 0), k - 4)
  ELSE MulPow10(MulSmall(n, 10, 0), k - 1)

RECURSIVE DivPow10(_, _, _)
DivPow10Step(dm, k, sticky) == DivPow10(dm.q, k, sticky \/ dm.r # 0)

\* n divided by 10^k, with whether anything was cut off.
DivPow10(n, k, sticky) ==
  IF k = 0 THEN [q |-> n, sticky |-> sticky]
  ELSE IF k >= 4 THEN DivPow10Step(DivSmall(n, 10000), k - 4, sticky)
  ELSE DivPow10Step(DivSmall(n, 10), k - 1, sticky)

\* The bits a number is scaled up by before it is divided by a power of ten.
ScaleBits == 16 * (WideLimbs - 5)

DecimalQuotient(neg, d, bitSize) ==
  RoundFloat(neg, d.q, -ScaleBits, d.sticky, bitSize)

\* The float nearest to (-1)^neg * n * 10^dexp.  A negative dexp divides n
\* scaled up by ScaleBits bits, which keeps every bit that rounding needs
\* while 10^(-dexp) < 2^(ScaleBits - 55).
DecimalToFloat(neg, n, dexp, bitSize) ==
  IF dexp >= 0 THEN RoundFloat(neg, MulPow10(n, dexp), 0, FALSE, bitSize)
  ELSE DecimalQuotient(neg, DivPow10(Shl(n, ScaleBits), -dexp, FALSE), bitSize)

\* strconv.special: the text, in lower case and without its sign, of an
\* infinity or a NaN.
special(low) ==
  IF low # "" /\ Head(low) \in {"+", "-"}
  THEN Tail(low) \in {"inf", "infinity"}
  ELSE low \in {"inf", "infinity", "nan"}

atofResult(f) ==
  IF f.k = "inf" THEN [f |-> f, err |-> "range"] ELSE [f |-> f, err |-> ErrNil]

atof(r, bitSize) ==
  IF ~r.ok \/ r.rest # "" THEN [f |-> FloatOf(0, 0), err |-> "syntax"]
  ELSE atofResult(DecimalToFloat(r.neg, r.n, r.dexp, bitSize))

atofSpecial(low) ==
  IF low = "nan" THEN [f |-> NaN, err |-> ErrNil]
  ELSE [f |-> Inf(Head(low) = "-"), err |-> ErrNil]

\* strconv.ParseFloat(s, bitSize): the value and the error ("nil", "syntax"
\* or "range").
ParseFloat(s, bitSize) ==
  IF special(LowerStr(s)) THEN atofSpecial(LowerStr(s))
  ELSE atof(readFloat(s), bitSize)

\* The digits ds of a number of hundredths, written with the point.
Hundredths(ds) ==
  SubSeq(ds, 1, Len(ds) - 2) \o "." \o SubSeq(ds, Len(ds) - 1, Len(ds))

\* x / 2^s rounded to the nearest integer, ties to even; q is x without its
\* s lowest bits.
RoundShift(x, s, q) ==
  LET rem  == SubW(x, Shl(q, s))
      half == Shl(One(Len(x)), s - 1)
  IN  IF ULess(half, rem) \/ (rem = half /\ ~IsEven(q))
      THEN AddW(q, One(Len(x))) ELSE q

FormatFraction(x, s) ==
  Hundredths(PadZero(UDecimal(RoundShift(x, s, Shr(x, s))), 3))

\* fmt.Sprintf("%0.2f", x): the exact value rounded to two decimals, ties to
\* even.
FormatFloat2(f) ==
  IF f.k = "nan" THEN "NaN"
  ELSE IF f.k = "inf" THEN (IF f.neg THEN "-Inf" ELSE "+Inf")
  ELSE (IF f.neg THEN "-" ELSE "")
       \o (IF f.e >= 0 THEN UDecimal(Shl(Wide(f.m), f.e)) \o ".00"
           ELSE FormatFraction(MulSmall(Wide(f.m), 100, 0), -f.e))

\* ------------------------------------------------------------------------
\* Dynamic values and results
\* ------------------------------------------------------------------------

IntTags == {"int", "int32", "int64"}

FloatTags == {"float32", "float64"}

IntV(tag, w) == [tag |-> tag, w |-> w]

FloatV(tag, f) == [tag |-> tag, f |-> f]

StrV(s) == [tag |-> "string", s |-> s]

TimeV(t) == [tag |-> "time.Time", t |-> t]

BoolV(b) == [tag |-> "bool", b |-> b]

\* struct{}{}: a value of a type none of the conversions knows.
StructV == [tag |-> "struct"]

\* The nil interface value.
NilV == [tag |-> "nil"]

\* A nil pointer result.
NilPtr == [tag |-> "nilptr"]

\* The errors, by the text that tells them apart.
ErrCannotConvert == "cannot convert"

ErrOutOfRange == "out of range"

ErrStrconv(err) == "strconv.ParseFloat: " \o err

\* What a conversion returns: the value its pointer points to (NilPtr for a
\* nil pointer) and its error (ErrNil for a nil error).
Ok(v) == [val |-> v, err |-> ErrNil]

Fail(err) == [val |-> NilPtr, err |-> err]

VARIABLES
  arch,    \* the target the program was built for
  orig,    \* the value the caller started from
  inVal,   \* the argument of the next call
  via,     \* the conversions whose results were passed on to give inVal
  other,   \* the second operand, of the calls that compare
  op,      \* the last function called ("none" before any call)
  arg,     \* the selector or operator it was called with ("none": neither)
  res      \* what it returned

vars == << arch, orig, inVal, via, other, op, arg, res >>

\* ------------------------------------------------------------------------
\* The conversions
\* ------------------------------------------------------------------------

\* The layouts Any2Date tries, in order.
formats ==
  << "20060102", "1/2/2006", "01/02/2006", "Jan 2, 2006", "January 2, 2006",
     "Jan 2 2006", "January 2 2006" >>

\* The string case of Any2Date: the first layout that parses the string with
\* its single quotes removed.
Any2DateString(x) ==
  LET str  == RemoveChar(x, "'")
      hits == { i \in 1..Len(formats) : Parse(formats[i], str).ok }
  IN  IF hits = {} THEN Fail(ErrCannotConvert)
      ELSE LET i == CHOOSE h \in hits : \A g \in hits : h <= g
           IN  Ok(TimeV(Parse(formats[i], str).t))

\* Any2Date with the int64 case left out of the integer cases.
Any2DateNoInt64(x) ==
  CASE x.tag = "string"         -> Any2DateString(x.s)
    [] x.tag = "time.Time"      -> Ok(x)
    [] x.tag \in {"int", "int32"} -> Any2DateString(FormatInt(x.w))
    [] OTHER                    -> Fail(ErrCannotConvert)

\* Any2Date with the error of the last return forgotten: a value no case
\* converts gets a nil pointer and a nil error.
Any2DateNoError(x) ==
  CASE x.tag = "string"    -> Any2DateString(x.s)
    [] x.tag = "time.Time" -> Ok(x)
    [] x.tag \in IntTags   -> Any2DateString(FormatInt(x.w))
    [] OTHER               -> [val |-> NilPtr, err |-> ErrNil]

Any2Date(x) ==
  CASE x.tag = "string"    -> Any2DateString(x.s)
    [] x.tag = "time.Time" -> Ok(x)
    [] x.tag \in IntTags   -> Any2DateString(FormatInt(x.w))
    [] OTHER               -> Fail(ErrCannotConvert)

Any2Float64(x) ==
  CASE x.tag \in IntTags -> Ok(FloatV("float64", IntToFloat(x.w, 64)))
    [] x.tag = "float32" -> Ok(FloatV("float64", FloatToFloat(x.f, 64)))
    [] x.tag = "float64" -> Ok(x)
    [] x.tag = "string"  ->
         LET xx == ParseFloat(x.s, 64)
         IN  IF xx.err # ErrNil THEN Fail(ErrStrconv(xx.err))
             ELSE Ok(FloatV("float64", xx.f))
    [] OTHER             -> Fail(ErrCannotConvert)

Any2Float32(x) ==
  CASE x.tag \in IntTags -> Ok(FloatV("float32", IntToFloat(x.w, 32)))
    [] x.tag = "float32" -> Ok(x)
    [] x.tag = "float64" -> Ok(FloatV("float32", FloatToFloat(x.f, 32)))
    [] x.tag = "string"  ->
         LET xx == ParseFloat(x.s, 32)
         IN  IF xx.err # ErrNil THEN Fail(ErrCannotConvert)
             ELSE Ok(FloatV("float32", FloatToFloat(xx.f, 32)))
    [] OTHER             -> Fail(ErrCannotConvert)

\* x > max || x < min for a float x, the limits converted to x's type.
FloatOutside(x, minW, maxW) ==
  LET bits == IF x.tag = "float32" THEN 32 ELSE 64
  IN  \/ FGreater(x.f, IntToFloat(maxW, bits))
      \/ FLess(x.f, IntToFloat(minW, bits))

Any2Int64(x) ==
  CASE x.tag \in IntTags   -> Ok(IntV("int64", x.w))
    [] x.tag \in FloatTags ->
         IF FloatOutside(x, MinInt64W, MaxInt64W) THEN Fail(ErrOutOfRange)
         ELSE Ok(IntV("int64", FloatToInt(x.f, 64, arch)))
    [] x.tag = "string"    ->
         LET xx == ParseInt(x.s, 64)
         IN  IF xx.err # ErrNil THEN Fail(ErrCannotConvert)
             ELSE Ok(IntV("int64", xx.n))
    [] OTHER               -> Fail(ErrCannotConvert)

Any2Int32(x) ==
  CASE x.tag = "int"       -> Ok(IntV("int32", TruncInt32(x.w)))
    [] x.tag = "int32"     -> Ok(x)
    [] x.tag = "int64"     ->
         IF SLess(MaxInt32W, x.w) \/ SLess(x.w, MinInt32W)
         THEN Fail(ErrOutOfRange)
         ELSE Ok(IntV("int32", TruncInt32(x.w)))
    [] x.tag \in FloatTags ->
         IF FloatOutside(x, MinInt32W, MaxInt32W) THEN Fail(ErrOutOfRange)
         ELSE Ok(IntV("int32", FloatToInt(x.f, 32, arch)))
    [] x.tag = "string"    ->
         LET xx == ParseInt(x.s, 32)
         IN  IF xx.err # ErrNil THEN Fail(ErrCannotConvert)
             ELSE Ok(IntV("int32", TruncInt32(xx.n)))
    [] OTHER               -> Fail(ErrCannotConvert)

Any2Int(x) ==
  CASE x.tag = "int"       -> Ok(x)
    [] x.tag = "int32"     -> Ok(IntV("int", x.w))
    [] x.tag = "int64"     ->
         IF SLess(MaxIntW, x.w) \/ SLess(x.w, MinIntW)
         THEN Fail(ErrOutOfRange)
         ELSE Ok(IntV("int", x.w))
    [] x.tag \in FloatTags ->
         IF FloatOutside(x, MinIntW, MaxIntW) THEN Fail(ErrOutOfRange)
         ELSE Ok(IntV("int", FloatToInt(x.f, 64, arch)))
    [] x.tag = "string"    ->
         LET xx == ParseInt(x.s, 32)
         IN  IF xx.err # ErrNil THEN Fail(ErrCannotConvert)
             ELSE Ok(IntV("int", xx.n))
    [] OTHER               -> Fail(ErrCannotConvert)

\* fmt's %v of the values no case of Any2String names.
SprintfV(x) ==
  CASE x.tag \in IntTags -> FormatInt(x.w)
    [] x.tag = "bool"    -> (IF x.b THEN "true" ELSE "false")
    [] x.tag = "nil"     -> "<nil>"
    [] OTHER             -> "{}"

\* Any2String with the layout of a date taken to be the zero-padded one.
Any2StringPadded(x) ==
  CASE x.tag = "string"    -> x.s
    [] x.tag = "time.Time" -> Format(x.t, "01/02/2006")
    [] x.tag \in FloatTags -> FormatFloat2(x.f)
    [] OTHER               -> SprintfV(x)

Any2String(x) ==
  CASE x.tag = "string"    -> x.s
    [] x.tag = "time.Time" -> Format(x.t, "1/2/2006")
    [] x.tag \in FloatTags -> FormatFloat2(x.f)
    [] OTHER               -> SprintfV(x)

\* The characters of the strings that are compared, in the order of their
\* bytes.
ByteOrder ==
  " '+,-./0123456789:<>ABCDEFGHIJKLMNOPQRSTUVWXYZabcdefghijklmnopqrstuvwxyz{}"

Byte(c) == CHOOSE i \in 1..Len(ByteOrder) : At(ByteOrder, i) = c

\* Go's x < y on strings.
RECURSIVE StrLess(_, _)
StrLess(x, y) ==
  IF y = "" THEN FALSE
  ELSE IF x = "" THEN TRUE
  ELSE IF Head(x) = Head(y) THEN StrLess(Tail(x), Tail(y))
  ELSE Byte(Head(x)) < Byte(Head(y))

\* The days of the months of `year` before month m.
RECURSIVE daysBefore(_, _)
daysBefore(m, year) ==
  IF m = 1 THEN 0 ELSE daysIn(m - 1, year) + daysBefore(m - 1, year)

\* The instant of a time.Time: the day, counted from the year 0, and the
\* second of that day, in UTC.
Instant(t) ==
  [ day |-> 365 * t.year + (t.year + 3) \div 4 - (t.year + 99) \div 100
              + (t.year + 399) \div 400 + daysBefore(t.month, t.year) + t.day
              + (t.sec - t.off) \div 86400,
    sec |-> (t.sec - t.off) % 86400 ]

AfterInstant(a, b) == a.day > b.day \/ (a.day = b.day /\ a.sec > b.sec)

\* x.Sub(t) > 0: the duration keeps its sign where it saturates.
After(x, t) == AfterInstant(Instant(x), Instant(t))

ErrNotString == "cannot convert to string"

ErrNotDate == "cannot convert to date"

ErrUnsupportedComparison == "unsupported comparison"

\* What GTAny and Comparer return: truth and err.
Truth(b) == [truth |-> b, err |-> ErrNil]

NoTruth(err) == [truth |-> FALSE, err |-> err]

\* The integer cases of GTAny with x >= *yy.
GTIntOrEqual(x, yy) ==
  IF yy.err # ErrNil THEN NoTruth(yy.err) ELSE Truth(~SLess(x.w, yy.val.w))

\* The integer cases of GTAny: x > *yy, or the error of the coercion.
GTInt(x, yy) ==
  IF yy.err # ErrNil THEN NoTruth(yy.err) ELSE Truth(SLess(yy.val.w, x.w))

\* The float cases of GTAny.
GTFloat(x, yy) ==
  IF yy.err # ErrNil THEN NoTruth(yy.err) ELSE Truth(FGreater(x.f, yy.val.f))

\* The type switch of GTAny.
GTSwitch(xa, xb) ==
  CASE xa.tag = "string" ->
         IF xb.tag # "string" THEN NoTruth(ErrNotString)
         ELSE Truth(StrLess(RemoveChar(xb.s, "'"), RemoveChar(xa.s, "'")))
    [] xa.tag = "int32"     -> GTInt(xa, Any2Int32(xb))
    [] xa.tag = "int64"     -> GTInt(xa, Any2Int64(xb))
    [] xa.tag = "float32"   -> GTFloat(xa, Any2Float32(xb))
    [] xa.tag = "float64"   -> GTFloat(xa, Any2Float64(xb))
    [] xa.tag = "time.Time" ->
         IF xb.tag # "time.Time" THEN NoTruth(ErrNotDate)
         ELSE Truth(After(xa.t, xb.t))
    [] OTHER                -> NoTruth(ErrUnsupportedComparison)

\* GTAny without its test of nil operands.
GTAnyNoNilTest(xa, xb) == GTSwitch(xa, xb)

GTAny(xa, xb) ==
  IF xb = NilV \/ xa = NilV THEN Truth(TRUE) ELSE GTSwitch(xa, xb)

ErrCannotCompare == "cannot compare: LTAny"

\* A call that did not return: the program stopped with a run-time panic.
Aborted(why) == [panic |-> why]

PanicConversion == "interface conversion"

\* x < y of two values of the tag of x.
LTSame(x, y) ==
  CASE x.tag \in FloatTags  -> FLess(x.f, y.f)
    [] x.tag \in IntTags    -> SLess(x.w, y.w)
    [] x.tag = "string"     -> StrLess(x.s, y.s)
    [] x.tag = "time.Time"  -> After(y.t, x.t)

\* LTAny: the type assertion on y panics when y is not of the type of x.
LTAny(x, y) ==
  IF x.tag \in { "float64", "float32", "int64", "int32", "string", "time.Time" }
  THEN IF y.tag # x.tag THEN Aborted(PanicConversion) ELSE Truth(LTSame(x, y))
  ELSE NoTruth(ErrCannotCompare)

\* The operators of Comparer.
Operators == { "==", "!=", ">", "<", ">=", "<=" }

ErrUnsupportedOperator(comp) == "unsupported comparison: " \o comp

\* The first step of Comparer: an operand Any2Date converts is replaced by
\* its date.
DateOr(t, x) == IF t.err = ErrNil THEN t.val ELSE x

\* The last steps of Comparer with an operator it does not know read as ">".
DecideAnyOperator(test1, test2, comp) ==
  IF test1.err # ErrNil THEN NoTruth(test1.err)
  ELSE IF test2.err # ErrNil THEN NoTruth(test2.err)
  ELSE CASE comp = ">=" -> Truth(~test2.truth)
         [] comp = "==" -> Truth(~test1.truth /\ ~test2.truth)
         [] comp = "!=" -> Truth(test1.truth \/ test2.truth)
         [] comp = "<"  -> Truth(test2.truth)
         [] comp = "<=" -> Truth(~test1.truth)
         [] OTHER       -> Truth(test1.truth)

\* The last steps of Comparer: the result for comp of test1 = GTAny(xa, xb)
\* and test2 = GTAny(xb, xa).
Decide(test1, test2, comp) ==
  IF test1.err # ErrNil THEN NoTruth(test1.err)
  ELSE IF test2.err # ErrNil THEN NoTruth(test2.err)
  ELSE CASE comp = ">"  -> Truth(test1.truth)
         [] comp = ">=" -> Truth(~test2.truth)
         [] comp = "==" -> Truth(~test1.truth /\ ~test2.truth)
         [] comp = "!=" -> Truth(test1.truth \/ test2.truth)
         [] comp = "<"  -> Truth(test2.truth)
         [] comp = "<=" -> Truth(~test1.truth)
         [] OTHER       -> NoTruth(ErrUnsupportedOperator(comp))

\* Comparer with its second test the same as its first.
CompareOneWay(xa, xb, comp) == Decide(GTAny(xa, xb), GTAny(xa, xb), comp)

\* Comparer of operands that were reinterpreted.
Compare(xa, xb, comp) == Decide(GTAny(xa, xb), GTAny(xb, xa), comp)

\* Comparer without its first step.
ComparerAsGiven(xa, xb, comp) == Compare(xa, xb, comp)

Comparer(xa, xb, comp) ==
  Compare(DateOr(Any2Date(xa), xa), DateOr(Any2Date(xb), xb), comp)

\* The values of reflect.Kind that are modelled, by name.
Kinds ==
  { "Float64", "Float32", "Int64", "Int32", "Int", "String", "Struct",
    "Interface", "Bool", "Ptr" }

ErrNilInput == "input is nil"

ErrUnsupportedKind == "unsupported type or conversion error"

String2Kind(str) ==
  CASE str = "float64"   -> "Float64"
    [] str = "float32"   -> "Float32"
    [] str = "string"    -> "String"
    [] str = "int"       -> "Int"
    [] str = "int32"     -> "Int32"
    [] str = "int64"     -> "Int64"
    [] str = "time.Time" -> "Struct"
    [] OTHER             -> "Interface"

\* A case of Any2Kind: the value the coercion's pointer points to, or the
\* error of the last return when the coercion failed.
Deref(r) == IF r.err = ErrNil THEN Ok(r.val) ELSE Fail(ErrUnsupportedKind)

\* Any2Kind with the coercions of the cases Int32 and Int exchanged.
Any2KindExchanged(x, kind) ==
  IF x = NilV THEN Fail(ErrNilInput)
  ELSE CASE kind = "Float64" -> Deref(Any2Float64(x))
         [] kind = "Float32" -> Deref(Any2Float32(x))
         [] kind = "Int64"   -> Deref(Any2Int64(x))
         [] kind = "Int32"   -> Deref(Any2Int(x))
         [] kind = "Int"     -> Deref(Any2Int32(x))
         [] kind = "String"  -> Ok(StrV(Any2String(x)))
         [] kind = "Struct"  -> Deref(Any2Date(x))
         [] OTHER            -> Fail(ErrUnsupportedKind)

\* Any2Kind without the test for a nil input.
Any2KindNoNilTest(x, kind) ==
  CASE kind = "Float64" -> Deref(Any2Float64(x))
    [] kind = "Float32" -> Deref(Any2Float32(x))
    [] kind = "Int64"   -> Deref(Any2Int64(x))
    [] kind = "Int32"   -> Deref(Any2Int32(x))
    [] kind = "Int"     -> Deref(Any2Int(x))
    [] kind = "String"  -> Ok(StrV(Any2String(x)))
    [] kind = "Struct"  -> Deref(Any2Date(x))
    [] OTHER            -> Fail(ErrUnsupportedKind)

Any2Kind(x, kind) ==
  IF x = NilV THEN Fail(ErrNilInput)
  ELSE CASE kind = "Float64" -> Deref(Any2Float64(x))
         [] kind = "Float32" -> Deref(Any2Float32(x))
         [] kind = "Int64"   -> Deref(Any2Int64(x))
         [] kind = "Int32"   -> Deref(Any2Int32(x))
         [] kind = "Int"     -> Deref(Any2Int(x))
         [] kind = "String"  -> Ok(StrV(Any2String(x)))
         [] kind = "Struct"  -> Deref(Any2Date(x))
         [] OTHER            -> Fail(ErrUnsupportedKind)

\* ------------------------------------------------------------------------
\* Strings: Matched
\* ------------------------------------------------------------------------

ErrUnmatched == "unmatched startChar"

\* A string result and an error.
Text(str) == [val |-> str, err |-> ErrNil]

NoText(err) == [val |-> "", err |-> err]

\* The loop of Matched from the byte at index ind, counted from 0.
RECURSIVE MatchedFrom(_, _, _, _, _, _)
MatchedFrom(inStr, startChar, endChar, ind, start, ignore) ==
  IF ind >= Len(inStr)
  THEN IF start = -1 THEN Text("") ELSE NoText(ErrUnmatched)
  ELSE IF At(inStr, ind + 1) = startChar
  THEN MatchedFrom(inStr, startChar, endChar, ind + 1,
                   IF start = -1 THEN ind ELSE start, ignore + 1)
  ELSE IF At(inStr, ind + 1) = endChar
  THEN IF ignore - 1 = 0
       THEN Text(SubSeq(inStr, start + 2, ind))
       ELSE MatchedFrom(inStr, startChar, endChar, ind + 1, start, ignore - 1)
  ELSE MatchedFrom(inStr, startChar, endChar, ind + 1, start, ignore)

Matched(inStr, startChar, endChar) ==
  MatchedFrom(inStr, startChar, endChar, 0, -1, 0)

\* ------------------------------------------------------------------------
\* Random letters
\* ------------------------------------------------------------------------

letters == "abcdefghijklmnopqrstuvwxyz"

bytesPerInt == 8

ErrEOF == "EOF"

PanicIndex == "index out of range"

\* The bits of a natural number.
RECURSIVE Bits(_)
Bits(n) == IF n = 0 THEN 0 ELSE 1 + Bits(n \div 2)

\* crypto/rand.Int for a max of at most 256: bytes are read one at a time,
\* cut to the bits of max - 1, until one is below max; rest is what is left
\* to read, and reading past its end is an error.
Accepted(rdr, max) ==
  { i \in 1..Len(rdr) : rdr[i] % (2 ^ Bits(max - 1)) < max }

FirstOf(S) == CHOOSE i \in S : \A j \in S : i <= j

RandIntAt(rdr, max, i) ==
  [val |-> rdr[i] % (2 ^ Bits(max - 1)), err |-> ErrNil,
   rest |-> SubSeq(rdr, i + 1, Len(rdr))]

RandInt(rdr, max) ==
  IF Accepted(rdr, max) = {} THEN [val |-> 0, err |-> ErrEOF, rest |-> << >>]
  ELSE RandIntAt(rdr, max, FirstOf(Accepted(rdr, max)))

\* The loop of RandUnifInt: n more numbers below upper are read from rdr
\* and appended to outInts; r is the next one.
RECURSIVE RandUnifIntLoop(_, _, _, _)
RandUnifIntStep(n, upper, r, outInts) ==
  IF r.err # ErrNil THEN [val |-> << >>, err |-> r.err]
  ELSE RandUnifIntLoop(n - 1, upper, r.rest, Append(outInts, r.val))

RandUnifIntLoop(n, upper, rdr, outInts) ==
  IF n = 0 THEN [val |-> outInts, err |-> ErrNil]
  ELSE RandUnifIntStep(n, upper, RandInt(rdr, upper), outInts)

\* RandUnifInt, of the bytesPerInt * n random bytes b1 that rand.Read gave.
RandUnifInt(n, upper, b1) == RandUnifIntLoop(n, upper, b1, << >>)

\* A string that was returned.
Str(s) == [val |-> s]

\* The loop of RandomLetters from index ind, counted from 0.
RECURSIVE RandomLettersLoop(_, _, _, _)
RandomLettersLoop(length, randN, ind, name) ==
  IF ind >= length THEN Str(name)
  ELSE IF ind >= Len(randN) THEN Aborted(PanicIndex)
  ELSE RandomLettersLoop(length, randN, ind + 1,
                         name \o At(letters, randN[ind + 1] + 1))

RandomLettersOf(length, randN) == RandomLettersLoop(length, randN, 0, "")

RandomLettersFrom(length, randN) ==
  IF randN.err # ErrNil THEN Aborted(randN.err)
  ELSE RandomLettersOf(length, randN.val)

\* RandomLetters, of the random bytes that rand.Read gave.
RandomLetters(length, b1) ==
  RandomLettersFrom(length, RandUnifInt(Len(letters), Len(letters), b1))

\* TempTable of the result of RandomLetters.
TempTable(tmpDB, name) ==
  IF "panic" \in DOMAIN name THEN name ELSE Str(tmpDB \o ".tmp" \o name.val)

\* ------------------------------------------------------------------------
\* Strings: ReplaceSmart
\* ------------------------------------------------------------------------

PanicMultiple == "old, new or delim has multiple characters in ReplaceSmart"

\* What one round of the loop of ReplaceSmart appends, were oldChar
\* replaced inside the delimiters too.
AppendedAnywhere(ch, oldChar, newChar, delim, inside) ==
  IF ch = delim THEN ch ELSE IF ch = oldChar THEN newChar ELSE ch

\* What one round of the loop of ReplaceSmart appends for the character ch.
Appended(ch, oldChar, newChar, delim, inside) ==
  IF ch = delim THEN ch
  ELSE IF ch = oldChar /\ ~inside THEN newChar
  ELSE ch

\* The loop of ReplaceSmart from index ind, counted from 0.
RECURSIVE ReplaceSmartLoop(_, _, _, _, _, _, _)
ReplaceSmartLoop(source, oldChar, newChar, delim, ind, inside, replaced) ==
  IF ind >= Len(source) THEN Str(replaced)
  ELSE ReplaceSmartLoop(
         source, oldChar, newChar, delim, ind + 1,
         IF At(source, ind + 1) = delim THEN ~inside ELSE inside,
         replaced \o Appended(At(source, ind + 1), oldChar, newChar, delim,
                              inside))

ReplaceSmart(source, oldChar, newChar, delim) ==
  IF Len(oldChar) > 1 \/ Len(newChar) > 1 \/ Len(delim) > 1
  THEN Aborted(PanicMultiple)
  ELSE ReplaceSmartLoop(source, oldChar, newChar, delim, 0, FALSE, "")

\* ------------------------------------------------------------------------
\* Strings: BuildQuery
\* ------------------------------------------------------------------------

\* strings.ReplaceAll of an old that is not empty.
RECURSIVE ReplaceAll(_, _, _)
ReplaceAll(str, old, new) ==
  IF str = "" THEN ""
  ELSE IF HasPrefix(str, old)
  THEN new \o ReplaceAll(Drop(str, Len(old)), old, new)
  ELSE Head(str) \o ReplaceAll(Tail(str), old, new)

\* The orders in which range can go through the keys of a map: Go leaves
\* the order open.
Orders(keys) ==
  { o \in [1..Cardinality(keys) -> keys] :
      \A i, j \in 1..Cardinality(keys) : o[i] = o[j] => i = j }

\* The loop of BuildQuery, going through the keys in one order; replacers
\* gives the AsString of each key.
RECURSIVE BuildQueryIn(_, _, _)
BuildQueryIn(qry, replacers, order) ==
  IF order = << >> THEN qry
  ELSE BuildQueryIn(ReplaceAll(qry, "?" \o Head(order), replacers[Head(order)]),
                    replacers, Tail(order))

\* The results BuildQuery can return.
BuildQuery(srcQry, replacers) ==
  { Str(BuildQueryIn(srcQry, replacers, order)) :
      order \in Orders(DOMAIN replacers) }

\* ------------------------------------------------------------------------
\* Slices of strings: Position, Has, DeDupeSlice
\* ------------------------------------------------------------------------

\* strings.Contains of a substr that is not empty.
Contains(str, substr) ==
  \E i \in 1..Len(str) : HasPrefix(Drop(str, i - 1), substr)

\* strings.Split of a sep that is not empty; field is the text read since
\* the last sep.
RECURSIVE SplitFrom(_, _, _)
SplitFrom(str, sep, field) ==
  IF str = "" THEN << field >>
  ELSE IF HasPrefix(str, sep)
  THEN << field >> \o SplitFrom(Drop(str, Len(sep)), sep, "")
  ELSE SplitFrom(Tail(str), sep, field \o Head(str))

Split(str, sep) == SplitFrom(str, sep, "")

\* The index, counted from 0, of the first straw that is the needle, or -1.
IndexIn(needle, haySlice) ==
  IF \E i \in 1..Len(haySlice) : haySlice[i] = needle
  THEN (CHOOSE i \in 1..Len(haySlice) :
          /\ haySlice[i] = needle
          /\ \A j \in 1..(i - 1) : haySlice[j] # needle) - 1
  ELSE -1

Position(needle, delim, haystack) ==
  IF Len(haystack) = 1 /\ delim # "" /\ Contains(haystack[1], delim)
  THEN IndexIn(needle, Split(haystack[1], delim))
  ELSE IndexIn(needle, haystack)

Has(needle, delim, haystack) == Position(needle, delim, haystack) >= 0

\* sort.Strings: slc, which is sorted, with str put in its place.
RECURSIVE Insert(_, _)
Insert(slc, str) ==
  IF slc = << >> THEN << str >>
  ELSE IF StrLess(str, Head(slc)) THEN << str >> \o slc
  ELSE << Head(slc) >> \o Insert(Tail(slc), str)

RECURSIVE SortStrings(_)
SortStrings(slc) ==
  IF slc = << >> THEN << >> ELSE Insert(SortStrings(Tail(slc)), Head(slc))

\* The loop of DeDupeSlice over what is left of inSlc.
RECURSIVE DeDupeLoop(_, _)
DeDupeLoop(inSlc, outSlc) ==
  IF inSlc = << >> THEN outSlc
  ELSE DeDupeLoop(Tail(inSlc),
                  IF ~Has(Head(inSlc), ",", outSlc)
                  THEN Append(outSlc, Head(inSlc)) ELSE outSlc)

DeDupeSlice(inSlc, sortReturn) ==
  IF sortReturn THEN SortStrings(DeDupeLoop(inSlc, << >>))
  ELSE DeDupeLoop(inSlc, << >>)

\* ------------------------------------------------------------------------
\* The values the caller starts from
\* ------------------------------------------------------------------------

\* Integers every integer type holds.
SmallInts ==
  { 0, 1, -1, 3, 9, 10, -10, 22, 3399, 10101, 20200321, -20200321, 20101101,
    20010001, 20000230, 20200399, 99991231, MaxInt32 - 1, MaxInt32,
    MinInt32 + 1, MinInt32 }

\* 2^31, -2^31-1, 2^32-1, 2^32, 2^32+5, 202003210, and the int64 limits.
WideWords ==
  { Shl(FromInt(1), 31), SubW(MinInt32W, FromInt(1)),
    << Limb - 1, Limb - 1, 0, 0 >>, Shl(FromInt(1), 32),
    << 5, 0, 1, 0 >>, MulSmall(FromInt(20200321), 10, 0),
    MaxInt64W, MinInt64W, AddW(MinInt64W, FromInt(1)) }

IntInputs ==
  { IntV(tag, FromInt(n)) : tag \in IntTags, n \in SmallInts }
    \cup { IntV(tag, w) : tag \in {"int", "int64"}, w \in WideWords }

\* Values both float types hold: zeros, small values, the int32 and int64
\* limits as floats, NaN and the infinities.
CommonFloats ==
  { FloatOf(0, 0), Fin(TRUE, FromInt(0), 0), FloatOf(3, 0), FloatOf(22, 0),
    FloatOf(-7, -1), FloatOf(7, -1), FloatOf(1, -3), FloatOf(3, -3),
    FloatOf(1, -20), FloatOf(5050080, 2),
    FloatOf(1, 31), FloatOf(-1, 31), FloatOf(16777215, 7),
    FloatOf(-8388609, 8), FloatOf(1, 32),
    FloatOf(1, 63), FloatOf(-1, 63), FloatOf(3, 61), FloatOf(-8388609, 40),
    FloatOf(1, 64), FloatOf(-3, 70),
    NaN, Inf(FALSE), Inf(TRUE) }

\* Values only float64 holds: 2.768, 2^31-1, 2^31-0.5, -2^31-1, -2^31-0.5,
\* 2^53+2, the float64 next below 2^63 and 20200321.5.
WideFloats ==
  { ParseFloat("2.768", 64).f, FloatOf(MaxInt32, 0),
    Fin(FALSE, << Limb - 1, Limb - 1, 0, 0 >>, -1),
    Fin(TRUE, << 1, HalfLimb, 0, 0 >>, 0), Fin(TRUE, << 1, 0, 1, 0 >>, -1),
    Fin(FALSE, << 1, 0, 0, 16 >>, 1),
    Fin(FALSE, << Limb - 1, Limb - 1, Limb - 1, 31 >>, 10),
    FloatOf(40400643, -1) }

FloatInputs ==
  { FloatV(tag, f) : tag \in FloatTags, f \in CommonFloats }
    \cup { FloatV("float64", f) : f \in WideFloats }
    \cup { FloatV("float32", ParseFloat("2.768", 32).f) }

\* Text that is, or is nearly, a number.
NumberStrings ==
  { "3", "22", "-1", "+7", "0", "007", "3.14", "2.768", "-3.5", "1e3",
    "2.5E-1", ".5", "5.", "1e39", "inf", "-Inf", "NaN",
    "hello", "", "-", "3 ", " 3", "1.2.3", "1e", "3,000", "true",
    "2147483647", "2147483648", "-2147483648", "-2147483649",
    "4294967296", "9223372036854775807", "9223372036854775808",
    "-9223372036854775808", "-9223372036854775809",
    "18446744073709551616", "99999999999999999999" }

\* The calendar dates the date strings are made from.
Dates ==
  { Date(2010, 11, 1), Date(2020, 3, 21), Date(1999, 2, 28),
    Date(2001, 10, 3), Date(2000, 2, 29), Date(2021, 1, 1),
    Date(2024, 12, 31), Date(2001, 5, 9), Date(999, 9, 30), Date(9999, 6, 15) }

\* Each date written in each layout.
Renderings == { Format(d, formats[i]) : d \in Dates, i \in 1..Len(formats) }

\* Year, month and day that are no calendar date, written in each layout.
Impossible ==
  { Time(2000, 2, 30, 0, "UTC", 0),
    Time(2001, 2, 29, 0, "UTC", 0), Time(1900, 2, 29, 0, "UTC", 0),
    Time(2020, 4, 31, 0, "UTC", 0), Time(2020, 1, 0, 0, "UTC", 0),
    Time(2020, 1, 32, 0, "UTC", 0) }

ImpossibleRenderings ==
  { Format(d, formats[i]) : d \in Impossible, i \in 1..Len(formats) }
    \cup { "20010001", "0/1/2001", "00/01/2001", "20011301", "13/1/2001",
           "13/01/2001" }

\* Renderings with text after them, and renderings cut short.
Suffixes == { "x", "0", " ", " 10:00" }

SomeRenderings ==
  { Format(d, formats[i]) :
      d \in {Date(2020, 3, 21), Date(2001, 10, 3)}, i \in 1..Len(formats) }

Extended == { r \o x : r \in SomeRenderings, x \in Suffixes }

Truncated ==
  UNION { { SubSeq(r, 1, 4), SubSeq(r, 1, Len(r) - 1) } : r \in SomeRenderings }

\* Other date text: quoted, in other letter case, with other spacing or
\* padding, or in no layout at all.
OtherDateStrings ==
  { "'20101101'", "'3/21/2020'", "'Oct 3, 2001'", "2020'03'21",
    "feb 28, 1999", "feb 30, 2000", "October 3, 2001", "OCTOBER 3, 2001",
    "oct 3 2001", "Oct  3,  2001", "Oct 3,2001", "Oct 03, 2001",
    "03/5/2020", "3/05/2020", "2020-03-21", "21/3/2020", "3-21-2020",
    "Octob 3, 2001", "May 9, 2001", "Sept 30, 2001", "3/21/20",
    "2001/10/03", "20010001" }

\* The type names String2Kind is called with: the seven it knows, and
\* others.
TypeNames ==
  { "float64", "float32", "string", "int", "int32", "int64", "time.Time",
    "bool", "Float64", "" }

StringInputs ==
  { StrV(s) : s \in NumberStrings \cup Renderings \cup ImpossibleRenderings
                     \cup Extended \cup Truncated \cup OtherDateStrings
                     \cup TypeNames }

\* Dates as time.Time values, some with a time of day or a zone of their own.
TimeInputs ==
  { TimeV(Date(2020, 3, 21)), TimeV(Date(1999, 1, 1)),
    TimeV(Time(2020, 3, 21, 49500, "UTC", 0)),
    TimeV(Time(2020, 3, 21, 0, "EST", -18000)),
    TimeV(Time(2001, 10, 3, 86399, "CET", 3600)) }

OtherInputs == { BoolV(TRUE), BoolV(FALSE), StructV, NilV }

Inputs ==
  IntInputs \cup FloatInputs \cup StringInputs \cup TimeInputs \cup OtherInputs

\* The values that are compared with each other: integers of each type,
\* floats (a NaN, an infinity and the float32 2^31 among them), strings
\* (with quotes, and dates in two layouts), dates (two of them the same
\* instant in different zones), a struct and nil.
Operands ==
  { IntV("int", FromInt(5)), IntV("int", FromInt(3)),
    IntV("int32", FromInt(5)), IntV("int32", FromInt(3)),
    IntV("int64", FromInt(5)), IntV("int64", << 5, 0, 1, 0 >>),
    FloatV("float32", FloatOf(5, 0)), FloatV("float32", FloatOf(1, 31)),
    FloatV("float64", FloatOf(5, 0)), FloatV("float64", FloatOf(7, -1)),
    FloatV("float64", NaN),
    StrV("5"), StrV("abc"), StrV("ab'c"), StrV("abd"),
    StrV("3/21/2020"), StrV("20200321"),
    TimeV(Date(2020, 3, 21)), TimeV(Date(2021, 1, 1)),
    TimeV(Time(2020, 3, 20, 68400, "EST", -18000)),
    StructV, NilV }

\* The dates that are compared with what they are written as.
ComparedDates ==
  { Date(2020, 3, 21), Date(2021, 1, 1), Date(2000, 2, 29), Date(2001, 10, 3),
    Date(999, 9, 30) }

\* A date written in each layout, and as the integer YYYYMMDD of each type.
DateForms(d) ==
  { StrV(Format(d, formats[i])) : i \in 1..Len(formats) }
    \cup { IntV(tag, FromInt(d.year * 10000 + d.month * 100 + d.day)) :
             tag \in IntTags }

\* Each of these dates with each of its forms, in both orders.
DatePairs ==
  UNION { { << f, TimeV(d) >> : f \in DateForms(d) }
            \cup { << TimeV(d), f >> : f \in DateForms(d) } :
          d \in ComparedDates }

\* Pairs of integers of one type: two that read as dates, one that reads
\* as none, and a small one.
IntegerPairs ==
  UNION { { IntV(tag, FromInt(n)) : n \in { 20200321, 20210101, 20200399, 5 } }
            \X { IntV(tag, FromInt(n)) :
                   n \in { 20200321, 20210101, 20200399, 5 } } :
          tag \in { "int32", "int64" } }

\* An integer with a float: floats with a fraction, above and below zero.
NumericPairs ==
  { IntV("int32", FromInt(-3)), IntV("int32", FromInt(3)),
    IntV("int64", FromInt(-3)) }
    \X { FloatV("float64", FloatOf(-7, -1)), FloatV("float32", FloatOf(-7, -1)),
         FloatV("float64", FloatOf(-3, 0)), FloatV("float64", FloatOf(5, -1)),
         FloatV("float64", FloatOf(-5, -1)) }

\* The pairs that are compared.
Compared ==
  (Operands \X Operands) \cup DatePairs \cup IntegerPairs \cup NumericPairs

\* What the caller starts from: one value, or two values to compare.
Pairs == (Inputs \X {NilV}) \cup Compared

\* The operators Comparer is called with: its six, and others.
Comps == Operators \cup { "?", "=" }

\* ------------------------------------------------------------------------
\* The caller
\* ------------------------------------------------------------------------

\* How many times the caller passes a result on as the next argument.
MaxFeeds == 1

NoCall == [val |-> NilPtr, err |-> "not called"]

Init ==
  /\ arch \in Archs
  /\ \E p \in Pairs : orig = p[1] /\ other = p[2]
  /\ inVal = orig
  /\ via = <<>>
  /\ op = "none"
  /\ arg = "none"
  /\ res = NoCall

\* One call: the caller, who has one value, calls a function on inVal and
\* keeps what it returns.
Return(name, result) ==
  /\ op = "none"
  /\ other = NilV
  /\ op' = name
  /\ res' = result
  /\ UNCHANGED << arch, orig, inVal, via, other, arg >>

CallAny2Int == Return("Any2Int", Any2Int(inVal))

CallAny2Int32 == Return("Any2Int32", Any2Int32(inVal))

CallAny2Int64 == Return("Any2Int64", Any2Int64(inVal))

CallAny2Float32 == Return("Any2Float32", Any2Float32(inVal))

CallAny2Float64 == Return("Any2Float64", Any2Float64(inVal))

CallAny2Date == Return("Any2Date", Any2Date(inVal))

CallAny2String == Return("Any2String", Ok(StrV(Any2String(inVal))))

\* One call with a selector or an operator.
ReturnOf(name, a, result) ==
  /\ op' = name
  /\ arg' = a
  /\ res' = result
  /\ UNCHANGED << arch, orig, inVal, via, other >>

\* The caller asks for the selector of the type its string names.
CallString2Kind ==
  /\ op = "none"
  /\ via = << >>
  /\ other = NilV
  /\ inVal.tag = "string"
  /\ ReturnOf("String2Kind", inVal.s, String2Kind(inVal.s))

\* The selectors Any2Kind is called with: those String2Kind returns of the
\* type names, and two it never returns.
Selectors == { String2Kind(name) : name \in TypeNames } \cup { "Bool", "Ptr" }

\* The caller converts the value it started from to a kind.
CallAny2Kind ==
  /\ op = "none"
  /\ via = << >>
  /\ other = NilV
  /\ \E kind \in Selectors : ReturnOf("Any2Kind", kind, Any2Kind(inVal, kind))

\* The caller compares two operands.
CallGTAny ==
  /\ op = "none"
  /\ via = << >>
  /\ << inVal, other >> \in Compared
  /\ ReturnOf("GTAny", "none", GTAny(inVal, other))

CallLTAny ==
  /\ op = "none"
  /\ via = << >>
  /\ << inVal, other >> \in Compared
  /\ ReturnOf("LTAny", "none", LTAny(inVal, other))

CallComparer ==
  /\ op = "none"
  /\ via = << >>
  /\ << inVal, other >> \in Compared
  /\ \E comp \in Comps : ReturnOf("Comparer", comp, Comparer(inVal, other, comp))

\* The caller passes the string Any2String returned to the next call, as
\* its only argument.
Feed ==
  /\ op = "Any2String"
  /\ Len(via) < MaxFeeds
  /\ inVal' = res.val
  /\ other' = NilV
  /\ via' = Append(via, op)
  /\ op' = "none"
  /\ res' = NoCall
  /\ UNCHANGED << arch, orig, arg >>

Next ==
  \/ CallAny2Int
  \/ CallAny2Int32
  \/ CallAny2Int64
  \/ CallAny2Float32
  \/ CallAny2Float64
  \/ CallAny2Date
  \/ CallAny2String
  \/ CallString2Kind
  \/ CallAny2Kind
  \/ CallGTAny
  \/ CallLTAny
  \/ CallComparer
  \/ Feed

Spec == Init /\ [][Next]_vars

\* ------------------------------------------------------------------------
\* The caller of the string functions
\* ------------------------------------------------------------------------

\* The longest string that is made of an alphabet.
MaxTextLen == 5

\* The strings of at most n characters of an alphabet.
RECURSIVE Words(_, _)
Words(alphabet, n) ==
  IF n = 0 THEN { "" }
  ELSE Words(alphabet, n - 1)
         \cup { w \o c : w \in Words(alphabet, n - 1), c \in alphabet }

\* The strings Matched is called with: those of the tests, and every short
\* string of brackets and a letter.
MatchedStrings ==
  { "a(bb(cc) dd (ee))", "a[b[c[d]]]", "abc", "a(b()" }
    \cup Words({ "(", ")", "a" }, MaxTextLen)

\* The start and end characters Matched is called with.
Seps == { << "(", ")" >>, << "[", "]" >>, << "(", "(" >>, << "((", ")" >> }

\* The lengths of the strings of random letters that are asked for.
Lengths == { 0, 1, 5, 25, 26, 27, 28 }

\* The random bytes rand.Read gives to RandUnifInt: all 0, all 255, and two
\* streams of many values.
ByteStreams ==
  { [i \in 1..(bytesPerInt * Len(letters)) |-> 0],
    [i \in 1..(bytesPerInt * Len(letters)) |-> 255],
    [i \in 1..(bytesPerInt * Len(letters)) |-> (i * 7) % 256],
    [i \in 1..(bytesPerInt * Len(letters)) |-> (i * 37 + 11) % 256] }

\* The strings ReplaceSmart is called with: that of the test, and every
\* short string of a space, a quote and a letter.
Sources == { " ' x' " } \cup Words({ " ", "'", "x" }, MaxTextLen)

\* The old, new and delimiter it is called with: as in the test; a new
\* character; a new that is the delimiter; an old that is the delimiter; no
\* delimiter; no old; and strings of two characters.
Replacements ==
  { << " ", "", "'" >>, << "x", "-", "'" >>, << " ", "'", "'" >>,
    << "'", "-", "'" >>, << " ", "-", "" >>, << "", "-", "'" >>,
    << "xx", "-", "'" >>, << " ", "--", "'" >>, << " ", "", "''" >> }

\* The queries BuildQuery is called with.
Queries ==
  { "SELECT ?field FROM ?table", "SELECT * FROM ?table", "?tab, ?table",
    "?table?tab", "?a?b", "?b ?a ?c", "SELECT 1", "", "?", "??a" }

\* The replacers: those of the test; a key that begins another; a value
\* that holds the placeholder of another key; three keys; one key; none.
ReplacerMaps ==
  { [field |-> "xTest", table |-> "db.table"],
    [tab |-> "t1", table |-> "db.t2"],
    [a |-> "?b", b |-> "c"],
    [a |-> "1", b |-> "2", c |-> "3"],
    [a |-> "1"],
    << >> }

\* The longest slice DeDupeSlice is called with.
MaxSliceLen == 3

\* The slices it is called with: of strings with and without a comma, and
\* the empty string.
Slices ==
  UNION { [1..n -> { "a", "b", "a,b", "" }] : n \in 0..MaxSliceLen }

\* The caller of the string functions starts with nothing.
TextInit ==
  /\ arch \in Archs
  /\ orig = NilV
  /\ inVal = NilV
  /\ other = NilV
  /\ via = << >>
  /\ op = "none"
  /\ arg = "none"
  /\ res = NoCall

CallMatched ==
  /\ op = "none"
  /\ \E inStr \in MatchedStrings, sep \in Seps :
       ReturnOf("Matched", << inStr, sep[1], sep[2] >>,
                Matched(inStr, sep[1], sep[2]))

CallRandomLetters ==
  /\ op = "none"
  /\ \E length \in Lengths, b1 \in ByteStreams :
       ReturnOf("RandomLetters", << length, b1 >>, RandomLetters(length, b1))

CallTempTable ==
  /\ op = "none"
  /\ \E length \in Lengths, b1 \in ByteStreams :
       ReturnOf("TempTable", << "db", length, b1 >>,
                TempTable("db", RandomLetters(length, b1)))

CallReplaceSmart ==
  /\ op = "none"
  /\ \E source \in Sources, r \in Replacements :
       ReturnOf("ReplaceSmart", << source, r[1], r[2], r[3] >>,
                ReplaceSmart(source, r[1], r[2], r[3]))

CallBuildQuery ==
  /\ op = "none"
  /\ \E srcQry \in Queries, replacers \in ReplacerMaps :
       \E qry \in BuildQuery(srcQry, replacers) :
         ReturnOf("BuildQuery", << srcQry, replacers >>, qry)

CallDeDupeSlice ==
  /\ op = "none"
  /\ \E inSlc \in Slices, sortReturn \in BOOLEAN :
       ReturnOf("DeDupeSlice", << inSlc, sortReturn >>,
                DeDupeSlice(inSlc, sortReturn))

TextNext ==
  \/ CallMatched
  \/ CallDeDupeSlice
  \/ CallBuildQuery
  \/ CallReplaceSmart
  \/ CallRandomLetters
  \/ CallTempTable

TextSpec == TextInit /\ [][TextNext]_vars

\* ------------------------------------------------------------------------
\* Properties of the coercions
\* ------------------------------------------------------------------------

\* The functions that return a pointer and an error.
Coercions ==
  { "Any2Int", "Any2Int32", "Any2Int64", "Any2Float32", "Any2Float64",
    "Any2Date" }

NumericCoercions == Coercions \ {"Any2Date"}

\* An integer below -2^31 or above 2^31-1.
OutsideInt32(w) == SLess(MaxInt32W, w) \/ SLess(w, MinInt32W)

\* A float, other than a NaN, below -2^31 or above 2^31-1.
FloatOutsideInt32(f) ==
  /\ f.k # "nan"
  /\ FGreater(f, FloatOf(MaxInt32, 0)) \/ FLess(f, FloatOf(-1, 31))

\* C1: Any2Int32 of an integer of any integer type that is below -2^31 or
\* above 2^31-1 returns no value and an error.
C1_NarrowingFails ==
  (op = "Any2Int32" /\ inVal.tag \in IntTags /\ OutsideInt32(inVal.w))
    => (res.val = NilPtr /\ res.err # ErrNil)

\* C1: where it does not: Any2Int32 of the int 2^31 returns -2^31, the low 32
\* bits, and no error.
C1_IntWrapped ==
  /\ op = "Any2Int32"
  /\ inVal = IntV("int", Shl(FromInt(1), 31))
  /\ res = Ok(IntV("int32", MinInt32W))

\* C2: Any2Int32 of an int64, float32 or float64 below -2^31 or above 2^31-1
\* returns no value and the "out of range" error, which is not the error a
\* string that is no number gets.
C2_OutOfRangeFails ==
  /\ ErrOutOfRange # ErrCannotConvert
  /\ (op = "Any2Int32" /\ inVal = StrV("hello")) => res = Fail(ErrCannotConvert)
  /\ ( /\ op = "Any2Int32"
       /\ \/ inVal.tag = "int64" /\ OutsideInt32(inVal.w)
          \/ inVal.tag \in FloatTags /\ FloatOutsideInt32(inVal.f) )
       => res = Fail(ErrOutOfRange)

\* C2: where it does not: the float32 2^31 is not above float32(MaxInt32),
\* which is 2^31 too, so Any2Int32 converts it and returns no error.
C2_Float32Accepted ==
  /\ op = "Any2Int32"
  /\ inVal = FloatV("float32", FloatOf(1, 31))
  /\ res.err = ErrNil
  /\ res.val.w \in {MinInt32W, MaxInt32W}

\* C3: each coercion returns a value and no error, or no value and an error.
C3_ValueXorError ==
  op \in Coercions => ((res.val = NilPtr) <=> (res.err # ErrNil))

\* C3: a nil input was refused, and a date was returned.
C3_NilRefused ==
  op = "Any2Date" /\ inVal = NilV /\ res.val = NilPtr /\ res.err # ErrNil

\* Text no coercion to a number reads.
NonNumericText == { "hello", "", "-", "1.2.3", "1e", "3,000", "true" }

\* C4: a numeric coercion refuses every value that is no integer, float or
\* string, refuses an integer or a float for its range only, reads the string
\* "3", and refuses a string that is no number with the "cannot convert"
\* error.
C4_AcceptedTags ==
  op \in NumericCoercions =>
    /\ inVal.tag \notin (IntTags \cup FloatTags \cup {"string"})
         => (res.val = NilPtr /\ res.err # ErrNil)
    /\ inVal.tag \in (IntTags \cup FloatTags)
         => res.err \in {ErrNil, ErrOutOfRange}
    /\ inVal = StrV("3") => res.err = ErrNil
    /\ (inVal.tag = "string" /\ inVal.s \in NonNumericText)
         => res = Fail(ErrCannotConvert)

\* C4: where it does not: Any2Float64 of "hello" returns the error of
\* strconv.ParseFloat as it is.
C4_Float64StrconvError ==
  /\ op = "Any2Float64"
  /\ inVal = StrV("hello")
  /\ res = Fail(ErrStrconv("syntax"))

\* C5: Any2Int32 of the string Any2String made of an int32, or of an int
\* within the int32 range, returns that integer.
C5_RoundTrip ==
  ( /\ op = "Any2Int32"
    /\ via # << >>
    /\ orig.tag \in {"int", "int32"}
    /\ ~OutsideInt32(orig.w) )
    => res = Ok(IntV("int32", orig.w))

\* C5: the round trip of the least int32 was made.
C5_MinInt32RoundTrip ==
  /\ op = "Any2Int32"
  /\ via = << "Any2String" >>
  /\ orig = IntV("int32", MinInt32W)
  /\ inVal = StrV("-2147483648")
  /\ res = Ok(IntV("int32", MinInt32W))

\* The digits of s after its sign, if it has one.
Unsigned(s) == IF s # "" /\ Head(s) \in {"+", "-"} THEN Tail(s) ELSE s

\* s is a base-10 integer: an optional sign and one or more digits.
IsIntegerText(s) ==
  Unsigned(s) # "" /\ \A i \in 1..Len(Unsigned(s)) : IsDigitChar(At(Unsigned(s), i))

\* The magnitude of the integer s, as a wide word.
Magnitude(s) == ScanDigits(Unsigned(s), Fill(WideLimbs, 0), 0).n

\* The integer s is a value of the signed type of `bits` bits.
Representable(s, bits) ==
  IF Head(s) = "-"
  THEN ~ULess(Shl(One(WideLimbs), bits - 1), Magnitude(s))
  ELSE ULess(Magnitude(s), Shl(One(WideLimbs), bits - 1))

\* The integer s as a 64-bit word.
WordOf(s) ==
  IF Head(s) = "-" THEN NegW(Resize(Magnitude(s), 4))
  ELSE Resize(Magnitude(s), 4)

\* The type each integer coercion returns and its width on a 64-bit platform.
IntTypeOf(name) ==
  CASE name = "Any2Int"   -> [tag |-> "int", bits |-> 64]
    [] name = "Any2Int32" -> [tag |-> "int32", bits |-> 32]
    [] name = "Any2Int64" -> [tag |-> "int64", bits |-> 64]

\* C6: an integer coercion of a string that is a base-10 integer returns the
\* integer when the type it converts to holds it, and fails otherwise.
C6_StringWidth ==
  ( /\ op \in {"Any2Int", "Any2Int32", "Any2Int64"}
    /\ inVal.tag = "string"
    /\ IsIntegerText(inVal.s) )
    => IF Representable(inVal.s, IntTypeOf(op).bits)
       THEN res = Ok(IntV(IntTypeOf(op).tag, WordOf(inVal.s)))
       ELSE res.val = NilPtr /\ res.err # ErrNil

\* C6: where it does not: Any2Int reads its string as a 32-bit integer, and
\* refuses "2147483648".
C6_IntStringRefused ==
  /\ op = "Any2Int"
  /\ inVal = StrV("2147483648")
  /\ res = Fail(ErrCannotConvert)

\* C7: Any2Date of a date written in any of the seven layouts returns that
\* date at midnight UTC.
C7_SevenFormats ==
  (op = "Any2Date" /\ inVal.tag = "string") =>
    \A d \in Dates, i \in 1..Len(formats) :
      inVal.s = Format(d, formats[i]) => res = Ok(TimeV(d))

\* C7: a leap day written with the full month name and no comma was read.
C7_LeapDayRead ==
  /\ op = "Any2Date"
  /\ inVal = StrV("February 29 2000")
  /\ res = Ok(TimeV(Date(2000, 2, 29)))

\* Text in none of the layouts.
NoLayoutText ==
  { "hello", "", "2020-03-21", "21/3/2020", "3-21-2020", "Octob 3, 2001",
    "Sept 30, 2001", "3/21/20", "2001/10/03", "Oct 3,2001" }

\* A day of the calendar.
RealDate(t) ==
  /\ t.month \in 1..12
  /\ t.day >= 1
  /\ t.day <= CASE t.month \in {4, 6, 9, 11} -> 30
                [] t.month = 2 ->
                     IF t.year % 400 = 0 \/ (t.year % 4 = 0 /\ t.year % 100 # 0)
                     THEN 29 ELSE 28
                [] OTHER -> 31

\* Text as the layouts match it: letters in lower case, a run of spaces as
\* one space, and a number without a zero before its digits.  prev is the
\* character before s.
RECURSIVE Canon(_, _)
Canon(s, prev) ==
  IF s = "" THEN ""
  ELSE IF Head(s) = " " /\ prev = " " THEN Canon(Tail(s), " ")
  ELSE IF /\ Head(s) = "0"
          /\ ~IsDigitChar(prev)
          /\ Tail(s) # ""
          /\ IsDigitChar(Head(Tail(s)))
    THEN Canon(Tail(s), "0")
  ELSE Lower(Head(s)) \o Canon(Tail(s), Head(s))

\* C8: Any2Date of a string returns a date only if the date is a day of the
\* calendar and the whole string, its single quotes removed, is that date in
\* one of the layouts; it returns no value and an error for text in no
\* layout, for a date in a layout that is cut short or has text after it,
\* and for a year, month and day that are no date, "20010001" and
\* "feb 30, 2000" among them; "October 3, 2001" is 2001-10-03.
C8_WholeStringRealDate ==
  (op = "Any2Date" /\ inVal.tag = "string") =>
    /\ res.err = ErrNil =>
         /\ RealDate(res.val.t)
         /\ \E i \in 1..Len(formats) :
              Canon(RemoveChar(inVal.s, "'"), "")
                = Canon(Format(res.val.t, formats[i]), "")
    /\ inVal.s \in (NoLayoutText \cup Extended \cup Truncated
                      \cup ImpossibleRenderings \cup {"20010001", "feb 30, 2000"})
         => (res.val = NilPtr /\ res.err # ErrNil)
    /\ inVal.s = "October 3, 2001" => res = Ok(TimeV(Date(2001, 10, 3)))
    /\ inVal.s = "'20101101'" => res = Ok(TimeV(Date(2010, 11, 1)))

\* C8: a date with text after it, and a 30th of February, were refused.
C8_Refused ==
  /\ op = "Any2Date"
  /\ inVal.tag = "string"
  /\ inVal.s \in {"3/21/2020 10:00", "February 30, 2000"}
  /\ res = Fail(ErrCannotConvert)

\* C9: Any2Date of an integer returns what Any2Date of the integer's decimal
\* string returns: the date 2020-03-21 for 20200321, and no value and an
\* error for 3399.
C9_IntegerAsString ==
  op = "Any2Date" =>
    /\ (via # << >> /\ orig.tag \in IntTags) => res = Any2Date(orig)
    /\ (inVal.tag \in IntTags /\ inVal.w = FromInt(20200321))
         => res = Ok(TimeV(Date(2020, 3, 21)))
    /\ (inVal.tag \in IntTags /\ inVal.w = FromInt(3399))
         => (res.val = NilPtr /\ res.err # ErrNil)

\* C9: the int64 20200321 was made a string, and the string a date.
C9_ViaStringRead ==
  /\ op = "Any2Date"
  /\ via = << "Any2String" >>
  /\ orig = IntV("int64", FromInt(20200321))
  /\ inVal = StrV("20200321")
  /\ res = Ok(TimeV(Date(2020, 3, 21)))

\* C10: a date Any2Date returns is at midnight and in UTC.
C10_Normalized ==
  (op = "Any2Date" /\ res.err = ErrNil) =>
    (res.val.t.sec = 0 /\ res.val.t.zone = "UTC" /\ res.val.t.off = 0)

\* C10: where it is not: a time.Time with a time of day and a zone of its
\* own is returned as it is.
C10_PassedThrough ==
  /\ op = "Any2Date"
  /\ inVal = TimeV(Time(2001, 10, 3, 86399, "CET", 3600))
  /\ res = Ok(inVal)

\* ------------------------------------------------------------------------
\* Properties of Any2String
\* ------------------------------------------------------------------------

\* A natural number in decimal.
RECURSIVE Dec(_)
Dec(n) == IF n < 10 THEN DigitChar(n) ELSE Dec(n \div 10) \o DigitChar(n % 10)

\* The date of t as M/D/YYYY: month and day without padding, the year with
\* four digits.
MDY(t) ==
  Dec(t.month) \o "/" \o Dec(t.day) \o "/"
    \o (IF t.year < 1000 THEN PadZero(Dec(t.year), 4) ELSE Dec(t.year))

AllDigits(s) == \A i \in 1..Len(s) : IsDigitChar(At(s, i))

\* s is a number written with exactly two digits after the point.
TwoDecimals(s) ==
  /\ Len(Unsigned(s)) >= 4
  /\ At(s, Len(s) - 2) = "."
  /\ AllDigits(SubSeq(s, Len(s) - 1, Len(s)))
  /\ AllDigits(SubSeq(Unsigned(s), 1, Len(Unsigned(s)) - 3))

\* What Any2String returns of each value but a float.
StringsButFloats ==
  /\ res.err = ErrNil
  /\ res.val.tag = "string"
  /\ inVal.tag = "string" => res.val = inVal
  /\ inVal.tag = "time.Time" => res.val.s = MDY(inVal.t)
  /\ inVal = NilV => res.val.s = "<nil>"

\* C11, as stated: Any2String returns a string of every value: a string as
\* it is, a date as M/D/YYYY, and every float with two digits after the
\* point.
C11_EveryFloatTwoDecimals ==
  op = "Any2String" =>
    /\ StringsButFloats
    /\ inVal.tag \in FloatTags => TwoDecimals(res.val.s)

\* C11, amended: Any2String returns a string of every value: a string as it
\* is, a date as M/D/YYYY, a finite float rounded to two digits after the
\* point, and "NaN", "+Inf" or "-Inf" of a float that is not finite.
C11_Total ==
  op = "Any2String" =>
    /\ StringsButFloats
    /\ (inVal.tag \in FloatTags /\ inVal.f.k = "fin") => TwoDecimals(res.val.s)
    /\ (inVal.tag \in FloatTags /\ inVal.f.k # "fin")
         => res.val.s \in {"NaN", "+Inf", "-Inf"}
    /\ inVal = FloatV("float64", ParseFloat("2.768", 64).f) => res.val.s = "2.77"
    /\ inVal = FloatV("float32", FloatOf(-7, -1)) => res.val.s = "-3.50"
    /\ inVal = FloatV("float64", FloatOf(1, -3)) => res.val.s = "0.12"
    /\ inVal = FloatV("float64", FloatOf(1, 63))
         => res.val.s = "9223372036854775808.00"

\* C11: a date with a time of day and a zone of its own was written.
C11_DateWritten ==
  /\ op = "Any2String"
  /\ inVal = TimeV(Time(2001, 10, 3, 86399, "CET", 3600))
  /\ res = Ok(StrV("10/3/2001"))

\* ------------------------------------------------------------------------
\* Properties of Any2Kind and String2Kind
\* ------------------------------------------------------------------------

\* The type names String2Kind knows, each with the coercion of its kind.
KnownNames ==
  { "float64", "float32", "string", "int", "int32", "int64", "time.Time" }

SupportedKinds ==
  { "Float64", "Float32", "String", "Int", "Int32", "Int64", "Struct" }

CoercionOf(kind, v) ==
  CASE kind = "Float64" -> Any2Float64(v)
    [] kind = "Float32" -> Any2Float32(v)
    [] kind = "String"  -> Ok(StrV(Any2String(v)))
    [] kind = "Int"     -> Any2Int(v)
    [] kind = "Int32"   -> Any2Int32(v)
    [] kind = "Int64"   -> Any2Int64(v)
    [] kind = "Struct"  -> Any2Date(v)

\* C12: Any2Kind of a value that is not nil and a supported selector returns
\* a value exactly when the coercion of that selector does, and the same
\* value.
C12_Dispatch ==
  (op = "Any2Kind" /\ inVal # NilV /\ arg \in SupportedKinds) =>
    /\ res.err = ErrNil <=> CoercionOf(arg, inVal).err = ErrNil
    /\ res.err = ErrNil => res.val = CoercionOf(arg, inVal).val
    /\ res.err # ErrNil => res.val = NilPtr

\* C12: the string "22" was made an int32 by the selector of int32.
C12_StringToInt32 ==
  /\ op = "Any2Kind"
  /\ arg = "Int32"
  /\ inVal = StrV("22")
  /\ res = Ok(IntV("int32", FromInt(22)))

\* C13: Any2Kind returns no value and an error of a nil input, whatever the
\* selector, and of a selector that is not supported, whatever the input;
\* String2Kind returns the selector of each name it knows and a selector
\* that is not supported of every other name.
C13_NilOrUnsupported ==
  /\ (op = "Any2Kind" /\ (inVal = NilV \/ arg \notin SupportedKinds))
       => (res.val = NilPtr /\ res.err # ErrNil)
  /\ op = "String2Kind" =>
       /\ res \in Kinds
       /\ arg \in KnownNames <=> res \in SupportedKinds
       /\ arg = "time.Time" => res = "Struct"
       /\ arg = "int" => res = "Int"

\* C13: nil was refused with the selector of string.
C13_NilToString ==
  /\ op = "Any2Kind"
  /\ arg = "String"
  /\ inVal = NilV
  /\ res = Fail(ErrNilInput)

\* ------------------------------------------------------------------------
\* Properties of GTAny and Comparer
\* ------------------------------------------------------------------------

\* a > b and a = b of two integer values.
IntGreater(a, b) == SLess(b.w, a.w)

IntEqual(a, b) == a.w = b.w

\* C14: Comparer of two values of type int with ">" returns no error and
\* whether the first is the greater, and with "==" returns no error and
\* whether they are equal.
C14_IntsCompared ==
  (op = "Comparer" /\ inVal # NilV /\ other # NilV
     /\ inVal.tag = "int" /\ other.tag = "int") =>
    /\ arg = ">" => res = Truth(IntGreater(inVal, other))
    /\ arg = "==" => res = Truth(IntEqual(inVal, other))

\* C14: Comparer(5, 3, ">") returned an error and not true.
C14_IntsRefused ==
  /\ op = "Comparer"
  /\ inVal = IntV("int", FromInt(5))
  /\ other = IntV("int", FromInt(3))
  /\ arg = ">"
  /\ res = NoTruth(ErrUnsupportedComparison)

\* The tags GTAny compares.
ComparedTags == { "string", "int32", "int64", "float32", "float64", "time.Time" }

\* The coercion function of each of these tags, applied to v.
CoercionTo(tag, v) ==
  CASE tag = "int32"     -> Any2Int32(v)
    [] tag = "int64"     -> Any2Int64(v)
    [] tag = "float32"   -> Any2Float32(v)
    [] tag = "float64"   -> Any2Float64(v)
    [] tag = "string"    -> Ok(StrV(Any2String(v)))
    [] tag = "time.Time" -> Any2Date(v)

\* a > b in the ordering of the tag of a and b: numbers by value, strings
\* byte by byte with their single quotes removed, dates by their instant.
Greater(a, b) ==
  CASE a.tag \in IntTags   -> IntGreater(a, b)
    [] a.tag \in FloatTags -> FGreater(a.f, b.f)
    [] a.tag = "string"    ->
         StrLess(RemoveChar(b.s, "'"), RemoveChar(a.s, "'"))
    [] a.tag = "time.Time" -> After(a.t, b.t)

\* C15: GTAny of two values of different tags, neither nil, the first of a
\* compared tag, coerces the second to the tag of the first with the
\* coercion function of that tag; it returns the error of the coercion when
\* there is one, and otherwise no error and whether the first is greater
\* than the coerced second.
C15_CoercedThenCompared ==
  (op = "GTAny" /\ inVal # NilV /\ other # NilV
     /\ inVal.tag \in ComparedTags /\ inVal.tag # other.tag) =>
    IF CoercionTo(inVal.tag, other).err # ErrNil
    THEN res = NoTruth(CoercionTo(inVal.tag, other).err)
    ELSE res = Truth(Greater(inVal, CoercionTo(inVal.tag, other).val))

\* C15: GTAny of the string "5" and the int32 3 returned the error of a
\* second operand that is no string, though Any2String converts 3.
C15_StringNotCoerced ==
  /\ op = "GTAny"
  /\ inVal = StrV("5")
  /\ other = IntV("int32", FromInt(3))
  /\ Any2String(other) = "3"
  /\ res = NoTruth(ErrNotString)

\* C16: GTAny returns true and no error when either operand is nil, whatever
\* the other operand is.
C16_NilIsTrue ==
  (op = "GTAny" /\ (inVal = NilV \/ other = NilV)) => res = Truth(TRUE)

\* C16: GTAny of a struct, which it does not compare, and nil returned true.
C16_StructAndNil ==
  /\ op = "GTAny"
  /\ inVal = StructV
  /\ other = NilV
  /\ res = Truth(TRUE)

\* Two values of one compared tag are equal: integers of the same value,
\* floats of the same value (the zeros are one value, and a NaN equals
\* nothing), strings that are the same once their single quotes are
\* removed, dates of the same instant.
EqualIn(a, b) ==
  CASE a.tag \in IntTags   -> IntEqual(a, b)
    [] a.tag \in FloatTags ->
         /\ a.f.k # "nan"
         /\ b.f.k # "nan"
         /\ (a.f = b.f \/ (FIsZero(a.f) /\ FIsZero(b.f)))
    [] a.tag = "string"    -> RemoveChar(a.s, "'") = RemoveChar(b.s, "'")
    [] a.tag = "time.Time" -> Instant(a.t) = Instant(b.t)

\* One of the two is a float NaN.
EitherNaN(a, b) == a.tag \in FloatTags /\ (a.f.k = "nan" \/ b.f.k = "nan")

\* The state is GTAny of two values of one compared tag, neither nil.
SameTagCompared ==
  /\ op = "GTAny"
  /\ inVal # NilV
  /\ other # NilV
  /\ inVal.tag \in ComparedTags
  /\ inVal.tag = other.tag

\* C17 as it is stated: GTAny of two values of one compared tag returns no
\* error in either order and is not true in both orders, and it is false in
\* both orders exactly when the two are equal.
C17_FalseBothWaysIffEqual ==
  SameTagCompared =>
    /\ res.err = ErrNil
    /\ GTAny(other, inVal).err = ErrNil
    /\ ~(res.truth /\ GTAny(other, inVal).truth)
    /\ (~res.truth /\ ~GTAny(other, inVal).truth) <=> EqualIn(inVal, other)

\* C17: GTAny of two values of one compared tag returns no error in either
\* order and is not true in both orders; it is false in both orders exactly
\* when the two are equal or one of them is a float NaN.
C17_FalseBothWaysIffEqualOrNaN ==
  SameTagCompared =>
    /\ res.err = ErrNil
    /\ GTAny(other, inVal).err = ErrNil
    /\ ~(res.truth /\ GTAny(other, inVal).truth)
    /\ (~res.truth /\ ~GTAny(other, inVal).truth)
         <=> (EqualIn(inVal, other) \/ EitherNaN(inVal, other))
    /\ res.truth <=> Greater(inVal, other)

\* C17: the strings "ab'c" and "abc" were compared, and neither is the
\* greater.
C17_QuotedEqual ==
  /\ op = "GTAny"
  /\ inVal = StrV("ab'c")
  /\ other = StrV("abc")
  /\ res = Truth(FALSE)
  /\ GTAny(other, inVal) = Truth(FALSE)

\* An operand of Comparer after its first step: the date Any2Date makes of
\* it, or itself when Any2Date makes none.
DateElse(date, x) == IF date.err = ErrNil THEN date.val ELSE x

Reinterpreted(x) == DateElse(Any2Date(x), x)

\* What Comparer is to return of the results gt and lt of the two GTAny
\* calls.
TableHolds(gt, lt) ==
  /\ gt.err # ErrNil => res = NoTruth(gt.err)
  /\ (gt.err = ErrNil /\ lt.err # ErrNil) => res = NoTruth(lt.err)
  /\ (gt.err = ErrNil /\ lt.err = ErrNil) =>
       /\ arg = ">"  => res = Truth(gt.truth)
       /\ arg = ">=" => res = Truth(~lt.truth)
       /\ arg = "==" => res = Truth(~gt.truth /\ ~lt.truth)
       /\ arg = "!=" => res = Truth(gt.truth \/ lt.truth)
       /\ arg = "<"  => res = Truth(lt.truth)
       /\ arg = "<=" => res = Truth(~gt.truth)

\* C18: with gt = GTAny(a', b') and lt = GTAny(b', a') of the reinterpreted
\* operands, both without error, Comparer returns no error and gt for ">",
\* not lt for ">=", neither for "==", either for "!=", lt for "<" and not
\* gt for "<="; when the first GTAny returns an error Comparer returns it,
\* and else when the second does Comparer returns that, with no true result.
C18_OperatorTable ==
  op = "Comparer" =>
    TableHolds(GTAny(Reinterpreted(inVal), Reinterpreted(other)),
               GTAny(Reinterpreted(other), Reinterpreted(inVal)))

\* C18: the int32 3 and the float64 3.5 were compared with "<=": 3 is not
\* greater than 3.5 read as an int32, 3.5 is greater than 3 read as a
\* float64, and "<=" returned true.
C18_NotGreater ==
  /\ op = "Comparer"
  /\ arg = "<="
  /\ inVal = IntV("int32", FromInt(3))
  /\ other = FloatV("float64", FloatOf(7, -1))
  /\ GTAny(inVal, other) = Truth(FALSE)
  /\ GTAny(other, inVal) = Truth(TRUE)
  /\ res = Truth(TRUE)

\* C19: Comparer with an operator that is none of its six returns an error
\* and not true, whatever the operands are.
C19_UnknownOperatorFails ==
  (op = "Comparer" /\ arg \notin Operators) =>
    (res.err # ErrNil /\ res.truth = FALSE)

\* C19: Comparer of nil and nil with "?" returned the error of the operator.
C19_NilsAndQuestionMark ==
  /\ op = "Comparer"
  /\ arg = "?"
  /\ inVal = NilV
  /\ other = NilV
  /\ res = NoTruth("unsupported comparison: ?")

\* Of a date and one of its forms, in either order: the date, and the form.
DateOf(a, b) == IF a.tag = "time.Time" THEN a.t ELSE b.t

FormOf(a, b) == IF a.tag = "time.Time" THEN b ELSE a

\* The form is an integer of fewer than eight digits: the year of the date
\* has fewer than four.
ShortInteger(a, b) == FormOf(a, b).tag \in IntTags /\ DateOf(a, b).year < 1000

\* C20 as it is stated: Comparer of a date at 00:00 UTC and the same date
\* written as a string in one of the layouts or as the integer YYYYMMDD, in
\* either order, returns no error, true for "==", ">=" and "<=", and false
\* for "!=", ">" and "<".
C20_DateEqualsItsForms ==
  (op = "Comparer" /\ arg \in Operators /\ << inVal, other >> \in DatePairs) =>
    res = Truth(arg \in { "==", ">=", "<=" })

\* C20: Comparer of a date at 00:00 UTC and the same date written as a
\* string in one of the layouts, or as the integer YYYYMMDD when the year
\* has four digits, in either order, returns no error, true for "==", ">="
\* and "<=", and false for "!=", ">" and "<"; of the integer of a year of
\* fewer digits it returns an error.
C20_DateEqualsItsEightDigitForms ==
  (op = "Comparer" /\ arg \in Operators /\ << inVal, other >> \in DatePairs) =>
    IF ShortInteger(inVal, other)
    THEN res.err # ErrNil /\ res.truth = FALSE
    ELSE res = Truth(arg \in { "==", ">=", "<=" })

\* C20: the string "January 1, 2021" was found equal to the date 2021-01-01.
C20_LongFormEqual ==
  /\ op = "Comparer"
  /\ arg = "=="
  /\ inVal = StrV("January 1, 2021")
  /\ other = TimeV(Date(2021, 1, 1))
  /\ res = Truth(TRUE)

\* ------------------------------------------------------------------------
\* Properties of LTAny
\* ------------------------------------------------------------------------

\* The call returned: it did not stop the program.
Returned == "panic" \notin DOMAIN res

\* C21: LTAny of two values of one compared tag, neither nil, returns with
\* no error what GTAny of the two in the other order returns, also of
\* strings with single quotes in them.
C21_LessIsGreaterReversed ==
  (op = "LTAny" /\ inVal # NilV /\ other # NilV
     /\ inVal.tag \in ComparedTags /\ inVal.tag = other.tag) =>
    (Returned /\ res.err = ErrNil /\ res = GTAny(other, inVal))

\* C21: LTAny of "ab'c" and "abc" returned true, and GTAny of "abc" and
\* "ab'c", which removes the quote, returns false.
C21_QuoteCounted ==
  /\ op = "LTAny"
  /\ inVal = StrV("ab'c")
  /\ other = StrV("abc")
  /\ res = Truth(TRUE)
  /\ GTAny(other, inVal) = Truth(FALSE)

\* C22: LTAny of a first operand of a compared tag and a second of another
\* tag, or nil, returns an error and does not stop the program.
C22_MismatchReturnsError ==
  (op = "LTAny" /\ inVal.tag \in ComparedTags /\ other.tag # inVal.tag) =>
    (Returned /\ res.err # ErrNil)

\* C22: LTAny of the int32 5 and nil stopped the program.
C22_NilSecondPanics ==
  /\ op = "LTAny"
  /\ inVal = IntV("int32", FromInt(5))
  /\ other = NilV
  /\ res = Aborted(PanicConversion)

\* ------------------------------------------------------------------------
\* Properties of the string functions
\* ------------------------------------------------------------------------

\* How many of the characters i..j of str are c.
RECURSIVE Count(_, _, _, _)
Count(str, c, i, j) ==
  IF i > j THEN 0
  ELSE (IF At(str, i) = c THEN 1 ELSE 0) + Count(str, c, i + 1, j)

\* Where c first occurs in str, or 0.
First(str, c) ==
  IF \E i \in 1..Len(str) : At(str, i) = c
  THEN CHOOSE i \in 1..Len(str) :
         At(str, i) = c /\ \A j \in 1..(i - 1) : At(str, j) # c
  ELSE 0

\* The characters j after the first startChar up to which as many endChar
\* as startChar occur from that first startChar on.
Balancing(inStr, startChar, endChar) ==
  { j \in (First(inStr, startChar) + 1)..Len(inStr) :
      Count(inStr, startChar, First(inStr, startChar), j)
        = Count(inStr, endChar, First(inStr, startChar), j) }

\* Where the endChar is that balances the first startChar.
Balance(inStr, startChar, endChar) ==
  CHOOSE j \in Balancing(inStr, startChar, endChar) :
    \A k \in Balancing(inStr, startChar, endChar) : j <= k

\* C23: Matched of one start and one end character that differ returns the
\* text between the first start character and the end character that
\* balances it, when there is one; the empty string and no error when the
\* start character does not occur; an error when the first start character
\* is not balanced.
C23_BetweenBalanced ==
  (op = "Matched" /\ Len(arg[2]) = 1 /\ Len(arg[3]) = 1 /\ arg[2] # arg[3]) =>
    IF First(arg[1], arg[2]) = 0 THEN res = Text("")
    ELSE IF Balancing(arg[1], arg[2], arg[3]) = {} THEN res.err # ErrNil
    ELSE res = Text(SubSeq(arg[1], First(arg[1], arg[2]) + 1,
                           Balance(arg[1], arg[2], arg[3]) - 1))

\* C23: Matched of ")(a)" returned an error, though the "(" is balanced and
\* "a" is between.
C23_EndBeforeStart ==
  /\ op = "Matched"
  /\ arg = << ")(a)", "(", ")" >>
  /\ Balance(")(a)", "(", ")") = 4
  /\ res = NoText(ErrUnmatched)

\* Every character of str is one of a to z.
AllLetters(str) ==
  \A i \in 1..Len(str) : \E k \in 1..Len(letters) : At(str, i) = At(letters, k)

\* C24: RandomLetters of a length of 0 or more returns a string of that many
\* characters, each of a to z, and does not stop the program; the table
\* name TempTable makes of it has 3 + length characters after the database
\* name and the dot.
C24_ExactLength ==
  /\ op = "RandomLetters" =>
       (Returned /\ Len(res.val) = arg[1] /\ AllLetters(res.val))
  /\ op = "TempTable" =>
       (Returned /\ Len(res.val) = Len(arg[1]) + 1 + 3 + arg[2])

\* C24: RandomLetters(27) had its 26 random numbers and stopped the program
\* at the 27th letter.
C24_TwentySevenPanics ==
  /\ op = "RandomLetters"
  /\ arg[1] = 27
  /\ RandUnifInt(26, 26, arg[2]).err = ErrNil
  /\ Len(RandUnifInt(26, 26, arg[2]).val) = 26
  /\ res = Aborted(PanicIndex)

\* The character i of source lies outside the regions of delim: an even
\* number of delim come before it.
Outside(source, delim, i) == Count(source, delim, 1, i - 1) % 2 = 0

\* The characters 1..i of source with each old that is outside the regions
\* replaced by new.
RECURSIVE ReplacedOutside(_, _, _, _, _)
ReplacedOutside(source, old, new, delim, i) ==
  IF i = 0 THEN ""
  ELSE ReplacedOutside(source, old, new, delim, i - 1)
         \o (IF At(source, i) # delim /\ At(source, i) = old
                  /\ Outside(source, delim, i)
             THEN new ELSE At(source, i))

\* C25: ReplaceSmart of one character old, and of a new and a delim of at
\* most one character, returns the source with every old outside the
\* regions between one delim and the next replaced by new, every old inside
\* them as it was, and every delim kept.
C25_ReplacedOutside ==
  (op = "ReplaceSmart" /\ Len(arg[2]) = 1 /\ Len(arg[3]) <= 1
     /\ Len(arg[4]) <= 1) =>
    res = Str(ReplacedOutside(arg[1], arg[2], arg[3], arg[4], Len(arg[1])))

\* C25: ReplaceSmart of " ' x' " with old " ", new "" and delim "'"
\* returned "' x'".
C25_TestCase ==
  /\ op = "ReplaceSmart"
  /\ arg = << " ' x' ", " ", "", "'" >>
  /\ res = Str("' x'")

\* The keys whose placeholder str begins with.
KeysAt(str, replacers) ==
  { k \in DOMAIN replacers : HasPrefix(str, "?" \o k) }

\* The longest of some keys.
Longest(keys) == CHOOSE k \in keys : \A l \in keys : Len(l) <= Len(k)

\* str with every placeholder replaced by the value of its key, each
\* placeholder read once, from the left, as the longest key it can be.
RECURSIVE Filled(_, _)
Filled(str, replacers) ==
  IF str = "" THEN ""
  ELSE IF KeysAt(str, replacers) # {}
  THEN replacers[Longest(KeysAt(str, replacers))]
         \o Filled(Drop(str, 1 + Len(Longest(KeysAt(str, replacers)))),
                   replacers)
  ELSE Head(str) \o Filled(Tail(str), replacers)

\* C26: BuildQuery returns the query with every placeholder replaced by the
\* value of its key, and returns the same in whatever order it goes
\* through the keys, also when one key begins another.
C26_OrderFree ==
  op = "BuildQuery" =>
    /\ BuildQuery(arg[1], arg[2]) = { res }
    /\ res = Str(Filled(arg[1], arg[2]))

\* C26: BuildQuery of "SELECT * FROM ?table" with the keys tab and table
\* returned the value of tab with "le" after it, and can return the value
\* of table as well.
C26_PrefixKeyFirst ==
  /\ op = "BuildQuery"
  /\ arg = << "SELECT * FROM ?table", [tab |-> "t1", table |-> "db.t2"] >>
  /\ res = Str("SELECT * FROM t1le")
  /\ Str("SELECT * FROM db.t2") \in BuildQuery(arg[1], arg[2])

\* ------------------------------------------------------------------------
\* Properties of comparisons of numbers
\* ------------------------------------------------------------------------

\* What each operator of Comparer is of two integers.
IntegerOrder(a, b, comp) ==
  CASE comp = ">"  -> IntGreater(a, b)
    [] comp = ">=" -> ~IntGreater(b, a)
    [] comp = "==" -> IntEqual(a, b)
    [] comp = "!=" -> ~IntEqual(a, b)
    [] comp = "<"  -> IntGreater(b, a)
    [] comp = "<=" -> ~IntGreater(a, b)

\* C27: Comparer of two int32 or two int64 values with one of its six
\* operators returns no error and what the operator is of the two integers,
\* also when only one of the two reads as a date YYYYMMDD.
C27_IntegerOrder ==
  (op = "Comparer" /\ arg \in Operators /\ inVal # NilV /\ other # NilV
     /\ inVal.tag \in { "int32", "int64" } /\ inVal.tag = other.tag) =>
    res = Truth(IntegerOrder(inVal, other, arg))

\* C27: Comparer of the int32 values 20200321, which reads as a date, and
\* 20200399, which does not, with "<" returned the error of a date against
\* what is no date.
C27_OneDateOnly ==
  /\ op = "Comparer"
  /\ arg = "<"
  /\ inVal = IntV("int32", FromInt(20200321))
  /\ other = IntV("int32", FromInt(20200399))
  /\ Any2Date(inVal).err = ErrNil
  /\ Any2Date(other).err # ErrNil
  /\ res = NoTruth(ErrNotDate)

\* The float is finite and its integer part is a value of the type of the
\* integer a.
WithinRangeOf(a, f) ==
  f.k = "fin" /\ FitsInt(f, IF a.tag = "int32" THEN 32 ELSE 64)

\* The integer a as a float64, which holds every integer that is compared
\* here.
Exact(a) == IntToFloat(a.w, 64)

\* C28: GTAny of an int32 or int64 a and a float b within the range of a
\* returns no error and whether the number a is above the number b; and
\* Comparer of the two with "==" returns true only when the two numbers are
\* equal.
C28_NumericOrder ==
  /\ (op = "GTAny" /\ inVal.tag \in { "int32", "int64" }
        /\ other.tag \in FloatTags /\ WithinRangeOf(inVal, other.f)) =>
       res = Truth(FGreater(Exact(inVal), other.f))
  /\ (op = "Comparer" /\ arg = "==" /\ inVal.tag \in { "int32", "int64" }
        /\ other.tag \in FloatTags /\ WithinRangeOf(inVal, other.f)) =>
       (res = Truth(TRUE) => Exact(inVal) = other.f)

\* C28: GTAny of the int32 -3 and the float64 -3.5 returned false: -3.5 was
\* made the int32 -3 before it was compared.
C28_FractionCut ==
  /\ op = "GTAny"
  /\ inVal = IntV("int32", FromInt(-3))
  /\ other = FloatV("float64", FloatOf(-7, -1))
  /\ Any2Int32(other) = Ok(IntV("int32", FromInt(-3)))
  /\ res = Truth(FALSE)

\* The bits of the type each integer coercion returns.
BitsOf(name) == IF name = "Any2Int32" THEN 32 ELSE 64

\* The magnitude of the finite float f with its fraction cut off, when it
\* is below 2^64.
CutMagnitude(f) ==
  IF f.e >= 0 THEN Shl(f.m, f.e)
  ELSE IF -f.e >= 64 THEN FromInt(0)
  ELSE Shr(f.m, -f.e)

\* The integer w of `bits` bits is the float f cut toward zero.
IsCutOf(w, f, bits) ==
  /\ f.k = "fin"
  /\ BitLen(f.m) + f.e <= 64
  /\ (IF IsNeg(w) THEN NegW(w) ELSE w) = CutMagnitude(f)
  /\ IsNeg(w) => f.neg
  /\ (f.neg /\ ~IsZero(w)) => IsNeg(w)
  /\ bits = 32 => ~OutsideInt32(w)

\* The first float above the greatest value of the type of `bits` bits that
\* a float type of bitSize bits holds and that its limit test has to
\* refuse: 2^31 as a float32, 2^63 as either.
FirstAbove(x, bits) ==
  /\ x.f = FloatOf(1, bits - 1)
  /\ bits = 32 => x.tag = "float32"

\* C29: an integer coercion of a float that returns a value returns the
\* float cut toward zero, a value of the type it converts to; and it
\* returns the "out of range" error of the float 2^63 (Any2Int64, Any2Int)
\* and of the float32 2^31 (Any2Int32).
C29_CutInRange ==
  (op \in { "Any2Int", "Any2Int32", "Any2Int64" } /\ inVal.tag \in FloatTags) =>
    /\ res.err = ErrNil => IsCutOf(res.val.w, inVal.f, BitsOf(op))
    /\ FirstAbove(inVal, BitsOf(op)) => res = Fail(ErrOutOfRange)

\* C29: Any2Int64 of the float64 2^63 returned a value, the least or the
\* greatest int64, and no error.
C29_TwoTo63Accepted ==
  /\ op = "Any2Int64"
  /\ inVal = FloatV("float64", FloatOf(1, 63))
  /\ res.err = ErrNil
  /\ res.val.w \in { MinInt64W, MaxInt64W }

\* The elements of a slice.
Elements(slc) == { slc[i] : i \in 1..Len(slc) }

\* The elements of slc, each once, in the order in which they first occur.
RECURSIVE FirstOccurrences(_, _)
FirstOccurrences(slc, seen) ==
  IF slc = << >> THEN << >>
  ELSE IF Head(slc) \in seen THEN FirstOccurrences(Tail(slc), seen)
  ELSE << Head(slc) >> \o FirstOccurrences(Tail(slc), seen \cup { Head(slc) })

\* No element of slc occurs twice, and none comes before a lesser one.
SortedOnce(slc) ==
  \A i, j \in 1..Len(slc) : i < j => StrLess(slc[i], slc[j])

\* C30: DeDupeSlice without sorting returns each distinct element of the
\* slice once, in the order of first occurrence, also when elements hold a
\* comma; with sorting it returns the same elements, each once, in
\* ascending order.
C30_EachOnce ==
  op = "DeDupeSlice" =>
    IF arg[2]
    THEN Elements(res) = Elements(arg[1]) /\ SortedOnce(res)
    ELSE res = FirstOccurrences(arg[1], {})

\* C30: DeDupeSlice of "a,b" and "a" returned "a,b" alone.
C30_CommaHidesElement ==
  /\ op = "DeDupeSlice"
  /\ arg = << << "a,b", "a" >>, FALSE >>
  /\ res = << "a,b" >>

====
